---- MODULE Spec2Model ----
(***************************************************************************)
(* Session / process / connection orchestration of the agent web backend,  *)
(* and the terminal multiplexer.                                           *)
(*                                                                         *)
(* Spec      the session registry, the process manager, the connection     *)
(*           gateway and the session manager, as interleaved event-loop    *)
(*           turns (one action per handler or per continuation after an    *)
(*           await that really suspends).                                  *)
(* SpecQueue the outbound queue of one registered connection driven        *)
(*           through sendMessage / drain / flushMessageQueue.              *)
(* SpecTerm  the terminal multiplexer.                                     *)
(***************************************************************************)
EXTENDS Integers, Sequences, FiniteSets, TLC

\* ------------------------------------------------------------------------
\* Bounds of the model
\* ------------------------------------------------------------------------
Keys == {"k1"}
Conns == {"c1", "c2"}

MaxEngines == 2
MaxMsgs == 3
MaxInflight == 2
MaxSubmit == 104

Engines == 1..MaxEngines

MaxUI == 2

MaxClientSockets == 7

ClientSockets == 1..MaxClientSockets

MaxPathLen == 4

PathChars == {"/", "\\", ":", "-", "a"}

UIIds == 1..MaxUI

MAX_BUFFERED_MESSAGES == 100

NoEngine == 0

\* the terminal multiplexer
TermSockets == {"s1", "s2"}
TermIds == {"terminal-1"}
Paths == Keys \cup {"missing"}
MaxInstances == 2
MaxChunks == 2
MaxTermFrames == 2
MaxInput == 1

MaxDisposeCalls == 2

MaxCreates == 2

CreateCalls == 1..MaxCreates

\* the temporary session path of the n-th createSession call and the path of
\* the session file its engine reports
TempKey == <<"temp-1", "temp-2", "temp-3">>

NewKey == <<"new-1", "new-2", "new-3">>

ProcKeys == Keys \cup {TempKey[n] : n \in CreateCalls}
                 \cup {NewKey[n] : n \in CreateCalls}

Instances == 1..MaxInstances

MAX_HISTORY_BYTES == 512 * 1024

\* sizes in bytes of the chunks a pty outputs: empty, half the cap, and one
\* byte more than the cap
ChunkSizes == {0, MAX_HISTORY_BYTES \div 2, MAX_HISTORY_BYTES + 1}

NoInstance == 0

\* the scrollback buffer on its own
MaxAppends == 4

\* sizes of the chunks appended to one scrollback buffer: around nothing,
\* half the cap and the cap
HistorySizes == {0, 1, MAX_HISTORY_BYTES \div 2, MAX_HISTORY_BYTES - 1,
                 MAX_HISTORY_BYTES, MAX_HISTORY_BYTES + 1}

VARIABLES
  sessions,          \* State.sessions: the keys that have a Session entry
  scanned,           \* ProjectManager.scannedProjects: keys found on disk
  processes,         \* State.processes: key -> registered handle (PiProcess)
  connections,       \* State.connections: key -> set of connections
  executingSessions, \* State.executingSessions
  conn,              \* the WebSocketConnection record of each socket
  sock,              \* each socket: readyState, handlers attached, close code
  wire,              \* frames written to each socket, in write order
  pc,                \* where handleConnection of each socket stands
  engine,            \* each engine instance: state, session key, subscribed
  inflight,          \* per engine: sendUserMessage promises not yet settled
  nEngines,          \* engines constructed so far
  nMsgs,             \* messages produced so far (production order stamp)
  threw,             \* connections whose socket.send threw in the last step
  ui                 \* every extension-UI request: how and how often settled

bvars == <<sessions, scanned, processes, connections, executingSessions, conn,
           sock, wire, pc, engine, inflight, nEngines, nMsgs, threw, ui>>

\* the terminal multiplexer (routes/terminal.ts)
VARIABLES
  terminalInstances, \* the registry: terminal key -> registered instance
  instance,          \* every TerminalInstance object constructed so far
  tsock,             \* each terminal socket and the closure of its handler
  twire,             \* frames written to each terminal socket, in order
  nInstances,        \* ptys spawned so far
  nChunks            \* chunks output by the ptys so far (chunk identity)

tvars == <<terminalInstances, instance, tsock, twire, nInstances, nChunks>>

\* the session-directory codec (utils/paths.ts)
VARIABLES
  cwd,               \* the working directory handed to the codec
  dirName,           \* encodePathForDirectory(cwd), once computed
  decodedPath,       \* decodePathFromDirectory(dirName), once computed
  codecPc            \* "idle", "input", "encoded" or "decoded"

pvars == <<cwd, dirName, decodedPath, codecPc>>

\* the browser client of one session (PiSessionClient)
VARIABLES
  ws,                \* this.ws: the client's current socket, or NoSocket
  csock,             \* every WebSocket the client has constructed
  reconnectAttempts, \* this.reconnectAttempts
  reconnectTimeout,  \* this.reconnectTimeout: a timer, or NoSocket for null
  timers,            \* the timers set by attemptReconnect
  isConnected,       \* this.state.isConnected
  hook               \* the React hook owning the client: its effect's position

rvars == <<ws, csock, reconnectAttempts, reconnectTimeout, timers,
           isConnected, hook>>

\* the HTTP layer (routes/sessions.ts, SessionManager.createSession)
VARIABLES
  creates,           \* every createSession call: "none", "spawning", "done"
                     \* or "failed"
  dropped,           \* the events handleSessionEvent returned on without
                     \* sending: the session had no connection
  logged             \* what handleMessage logged for the last frame it
                     \* dispatched to no handler: "none", "error" or "warn"

avars == <<creates, dropped, logged>>

vars == <<bvars, tvars, pvars, rvars, avars>>

Frame(t, n) == [type |-> t, seq |-> n]

IsOpen(c) == sock[c].readyState = "open"

\* ------------------------------------------------------------------------
\* core/state.ts
\* ------------------------------------------------------------------------
NoProcess == [eng |-> NoEngine, isReady |-> FALSE, pendingExtensionUIs |-> {}]

\* an extension-UI request that was never made
NoUI == [st |-> "none", settled |-> 0, timer |-> "none"]

getProcess(k) == processes[k]

getConnections(k) == connections[k]

addConnection(cs, k, c) == [cs EXCEPT ![k] = @ \cup {c}]

removeConnection(cs, k, c) == [cs EXCEPT ![k] = @ \ {c}]

acquireExecutionLock(ex, k) ==
  IF k \in ex THEN [ok |-> FALSE, ex |-> ex] ELSE [ok |-> TRUE, ex |-> ex \cup {k}]

releaseExecutionLock(ex, k) == ex \ {k}

\* ------------------------------------------------------------------------
\* WebSocketService.sendMessage / flushMessageQueue, per connection
\* ------------------------------------------------------------------------
\* sendMessageTo with a full queue refusing the new message (drop-newest)
sendMessageTo_DropNewest(cn, open, m, throws) ==
  IF ~open
  THEN [cn |-> cn, out |-> <<>>, ok |-> FALSE]
  ELSE IF cn.isPaused
  THEN IF Len(cn.messageQueue) < MAX_BUFFERED_MESSAGES
       THEN [cn |-> [cn EXCEPT !.messageQueue = Append(@, m)],
             out |-> <<>>, ok |-> TRUE]
       ELSE [cn |-> cn, out |-> <<>>, ok |-> FALSE]
  ELSE IF throws
  THEN [cn |-> [cn EXCEPT !.isPaused = TRUE], out |-> <<>>, ok |-> FALSE]
  ELSE [cn |-> cn, out |-> <<m>>, ok |-> TRUE]

\* sendMessageTo without the shift() of the full-queue branch
sendMessageTo_NoShift(cn, open, m, throws) ==
  IF ~open
  THEN [cn |-> cn, out |-> <<>>, ok |-> FALSE]
  ELSE IF cn.isPaused
  THEN [cn |-> [cn EXCEPT !.messageQueue = Append(@, m)],
        out |-> <<>>, ok |-> Len(cn.messageQueue) < MAX_BUFFERED_MESSAGES]
  ELSE IF throws
  THEN [cn |-> [cn EXCEPT !.isPaused = TRUE], out |-> <<>>, ok |-> FALSE]
  ELSE [cn |-> cn, out |-> <<m>>, ok |-> TRUE]

\* body of the for-loop of sendMessage for one connection record cn:
\* the new record, the frames written to the socket, and anySuccess
sendMessageTo(cn, open, m, throws) ==
  IF ~open
  THEN [cn |-> cn, out |-> <<>>, ok |-> FALSE]
  ELSE IF cn.isPaused
  THEN IF Len(cn.messageQueue) < MAX_BUFFERED_MESSAGES
       THEN [cn |-> [cn EXCEPT !.messageQueue = Append(@, m)],
             out |-> <<>>, ok |-> TRUE]
       ELSE [cn |-> [cn EXCEPT !.messageQueue = Append(Tail(@), m)],
             out |-> <<>>, ok |-> FALSE]
  ELSE IF throws
  THEN [cn |-> [cn EXCEPT !.isPaused = TRUE], out |-> <<>>, ok |-> FALSE]
  ELSE [cn |-> cn, out |-> <<m>>, ok |-> TRUE]

\* the while-loop of flushMessageQueue; failAt = i > 0 makes the i-th send
\* of this flush throw, failAt = 0 makes none throw
RECURSIVE flushLoop(_, _, _)
flushLoop(cn, failAt, out) ==
  IF Len(cn.messageQueue) = 0 \/ cn.isPaused
  THEN [cn |-> cn, out |-> out]
  ELSE LET message == Head(cn.messageQueue)
           rest == Tail(cn.messageQueue)
       IN IF failAt = 1
          THEN [cn |-> [cn EXCEPT !.isPaused = TRUE,
                                  !.messageQueue = <<message>> \o rest],
                out |-> out]
          ELSE flushLoop([cn EXCEPT !.messageQueue = rest],
                         IF failAt = 0 THEN 0 ELSE failAt - 1,
                         Append(out, message))

\* flushLoop without the unshift() of the catch branch
RECURSIVE flushLoop_NoRequeue(_, _, _)
flushLoop_NoRequeue(cn, failAt, out) ==
  IF Len(cn.messageQueue) = 0 \/ cn.isPaused
  THEN [cn |-> cn, out |-> out]
  ELSE LET message == Head(cn.messageQueue)
           rest == Tail(cn.messageQueue)
       IN IF failAt = 1
          THEN [cn |-> [cn EXCEPT !.isPaused = TRUE, !.messageQueue = rest],
                out |-> out]
          ELSE flushLoop_NoRequeue([cn EXCEPT !.messageQueue = rest],
                                   IF failAt = 0 THEN 0 ELSE failAt - 1,
                                   Append(out, message))

flushMessageQueue_NoRequeue(cn, open, failAt) ==
  IF ~open THEN [cn |-> cn, out |-> <<>>] ELSE flushLoop_NoRequeue(cn, failAt, <<>>)

\* the positions at which a flush of n queued messages is made to fail:
\* none (0), the first two sends, the last two sends
FailPoints(n) == {i \in {0, 1, 2, n - 1, n} : 0 <= i /\ i <= n}

flushMessageQueue(cn, open, failAt) ==
  IF ~open THEN [cn |-> cn, out |-> <<>>] ELSE flushLoop(cn, failAt, <<>>)

\* sendMessage(sessionPath, message) on the registry (cn: connection records,
\* cs: connection sets, sk: sockets); thr is the set of connections whose
\* socket.send throws during this call
sendMessageConn(cn, cs, sk, k, m, thr) ==
  [c \in Conns |->
     IF c \in cs[k]
     THEN sendMessageTo(cn[c], sk[c].readyState = "open", m, c \in thr).cn
     ELSE cn[c]]

sendMessageWire(w, cn, cs, sk, k, m, thr) ==
  [c \in Conns |->
     IF c \in cs[k]
     THEN w[c] \o sendMessageTo(cn[c], sk[c].readyState = "open", m, c \in thr).out
     ELSE w[c]]

\* the connections of k on which sendMessage attempts a socket.send
SendTargets(cn, cs, sk, k) ==
  {c \in cs[k] : sk[c].readyState = "open" /\ ~cn[c].isPaused}

\* ------------------------------------------------------------------------
\* ProcessManager: direct fan-out used by handleSessionEvent, broadcastError
\* and cleanupProcess (socket.send under try/catch, no look at isPaused or at
\* the queue)
\* ------------------------------------------------------------------------
OpenConns(k) == {c \in getConnections(k) : IsOpen(c)}

directBroadcast(w, k, f, thr) ==
  [c \in Conns |->
     IF c \in OpenConns(k) /\ c \notin thr THEN Append(w[c], f) ELSE w[c]]

\* handleSessionEvent without the try/catch around each send: the first
\* throw ends the broadcast
handleSessionEvent_AbortOnThrow(w, k, f, thr) ==
  IF thr # {} THEN w ELSE directBroadcast(w, k, f, thr)

\* handleSessionEvent writing the event to every socket the server has
\* accepted, registered for the session or not
handleSessionEvent_ToEveryone(w, k, f, thr) ==
  [c \in Conns |-> IF c \notin thr THEN Append(w[c], f) ELSE w[c]]

handleSessionEvent(w, k, f, thr) == directBroadcast(w, k, f, thr)

broadcastError(w, k, f, thr) == directBroadcast(w, k, f, thr)

\* ------------------------------------------------------------------------
\* Session resolution (routes/websocket.ts, ProjectManager)
\* ------------------------------------------------------------------------
\* one project owns every session; a project with sessions in the registry
\* counts as loaded and is not scanned again
loadProjectSessions(ss) == IF ss # {} THEN ss ELSE ss \cup scanned

\* findSession leaving a session entry for an identifier it did not find
findSession_PlaceholderOnMiss(k) ==
  IF k \in sessions
  THEN [found |-> TRUE, sessions |-> sessions]
  ELSE LET loaded == loadProjectSessions(sessions)
       IN [found |-> k \in loaded,
           sessions |-> IF k \in loaded THEN loaded ELSE loaded \cup {k}]

findSession(k) ==
  IF k \in sessions
  THEN [found |-> TRUE, sessions |-> sessions]
  ELSE LET loaded == loadProjectSessions(sessions)
       IN [found |-> k \in loaded, sessions |-> loaded]

\* ------------------------------------------------------------------------
\* routes/terminal.ts: the terminal multiplexer
\* ------------------------------------------------------------------------
makeTerminalKey(sessionPath, terminalId) == <<sessionPath, terminalId>>

TermKeys == {makeTerminalKey(k, t) : k \in Keys, t \in TermIds}

NoKey == <<>>

Chunk(n, b) == [id |-> n, bytes |-> b]

TFrame(t, ch) == [type |-> t, chunk |-> ch]

Reply(t) == TFrame(t, Chunk(0, 0))

\* a TerminalInstance object that has not been constructed yet
NoInstanceRec == [key |-> NoKey, clients |-> {}, history |-> <<>>,
                  historyBytes |-> 0, disposed |-> FALSE, pty |-> "none",
                  written |-> 0, calls |-> 0]

NewInstanceRec(key) == [key |-> key, clients |-> {}, history |-> <<>>,
                        historyBytes |-> 0, disposed |-> FALSE,
                        pty |-> "running", written |-> 0, calls |-> 0]

NewTermSock == [readyState |-> "none", code |-> 0, pc |-> "new",
                key |-> NoKey, path |-> "none", inst |-> NoInstance,
                replayed |-> 0]

\* the while-loop of appendHistory never shifting out the last chunk
RECURSIVE evictHistory_KeepNewest(_)
evictHistory_KeepNewest(inst) ==
  IF inst.historyBytes > MAX_HISTORY_BYTES /\ Len(inst.history) > 1
  THEN evictHistory_KeepNewest([inst EXCEPT
                                  !.history = Tail(@),
                                  !.historyBytes = @ - Head(inst.history).bytes])
  ELSE inst

\* the while-loop of appendHistory
RECURSIVE evictHistory(_)
evictHistory(inst) ==
  IF inst.historyBytes > MAX_HISTORY_BYTES /\ Len(inst.history) > 0
  THEN evictHistory([inst EXCEPT
                       !.history = Tail(@),
                       !.historyBytes = @ - Head(inst.history).bytes])
  ELSE inst

appendHistory(inst, ch) ==
  IF ch.bytes = 0
  THEN inst
  ELSE evictHistory([inst EXCEPT !.history = Append(@, ch),
                                 !.historyBytes = @ + ch.bytes])

\* sendMessage of the terminal route: nothing is written unless the socket
\* is open
termSendMessage(tw, ts, s, m) ==
  IF ts[s].readyState # "open" THEN tw ELSE [tw EXCEPT ![s] = Append(@, m)]

\* broadcast that writes to one client only
broadcastTo_FirstOnly(tw, ts, clients, m) ==
  IF clients = {}
  THEN tw
  ELSE termSendMessage(tw, ts, CHOOSE x \in clients : TRUE, m)

RECURSIVE broadcastTo(_, _, _, _)
broadcastTo(tw, ts, clients, m) ==
  IF clients = {}
  THEN tw
  ELSE LET s == CHOOSE x \in clients : TRUE
       IN broadcastTo(termSendMessage(tw, ts, s, m), ts, clients \ {s}, m)

broadcast(tw, ts, inst, m) == broadcastTo(tw, ts, inst.clients, m)

\* the replay loop of the attach with the first chunk left out
RECURSIVE replayHistory_SkipFirst(_, _, _, _)
replayHistory_SkipFirst(tw, ts, s, history) ==
  IF Len(history) <= 1
  THEN tw
  ELSE replayHistory_SkipFirst(
         termSendMessage(tw, ts, s, TFrame("output", history[2])),
         ts, s, Tail(history))

\* the replay loop of the attach: one output frame per chunk of the history
RECURSIVE replayHistory(_, _, _, _)
replayHistory(tw, ts, s, history) ==
  IF history = <<>>
  THEN tw
  ELSE replayHistory(termSendMessage(tw, ts, s, TFrame("output", Head(history))),
                     ts, s, Tail(history))

\* a close loop that closes no client
closeClients_None(ts, clients, code) == ts

\* client.close(code) for every client whose socket is open
closeClients(ts, clients, code) ==
  [s \in TermSockets |->
     IF s \in clients /\ ts[s].readyState = "open"
     THEN [ts[s] EXCEPT !.readyState = "closing", !.code = code]
     ELSE ts[s]]

terminalFindSession(p) ==
  IF p \in sessions
  THEN [found |-> TRUE, sessions |-> sessions]
  ELSE LET loaded == loadProjectSessions(sessions)
       IN [found |-> p \in loaded, sessions |-> loaded]

InitTerminal ==
  /\ terminalInstances = [key \in TermKeys |-> NoInstance]
  /\ instance = [i \in Instances |-> NoInstanceRec]
  /\ tsock = [s \in TermSockets |-> NewTermSock]
  /\ twire = [s \in TermSockets |-> <<>>]
  /\ nInstances = 0
  /\ nChunks = 0

\* ------------------------------------------------------------------------
\* Init
\* ------------------------------------------------------------------------
NewConn == [sessionPath |-> "none", isAlive |-> FALSE,
            messageQueue |-> <<>>, isPaused |-> FALSE]

NewSock == [readyState |-> "none", handlers |-> FALSE, code |-> 0,
            ping |-> "none"]

NoEngineRec == [st |-> "none", key |-> "none", subscribed |-> FALSE,
                disposals |-> 0]

\* the codec before any path is handed to it
InitCodec ==
  /\ cwd = <<>>
  /\ dirName = <<>>
  /\ decodedPath = <<>>
  /\ codecPc = "idle"

NoSocket == 0

NewClientSock == [readyState |-> "none", code |-> 0, opened |-> FALSE]

NoTimer == [st |-> "none", delay |-> 0]

\* the client as constructed, before the hook's effect has run
InitClient ==
  /\ ws = NoSocket
  /\ csock = [s \in ClientSockets |-> NewClientSock]
  /\ reconnectAttempts = 0
  /\ reconnectTimeout = NoSocket
  /\ timers = [s \in ClientSockets |-> NoTimer]
  /\ isConnected = FALSE
  /\ hook = "created"

\* no createSession call has been made
InitApi ==
  /\ creates = [n \in CreateCalls |-> "none"]
  /\ dropped = {}
  /\ logged = "none"

InitBackend ==
  /\ sessions = {}
  /\ scanned = Keys
  /\ processes = [k \in ProcKeys |-> NoProcess]
  /\ connections = [k \in Keys |-> {}]
  /\ executingSessions = {}
  /\ conn = [c \in Conns |-> NewConn]
  /\ sock = [c \in Conns |-> NewSock]
  /\ wire = [c \in Conns |-> <<>>]
  /\ pc = [c \in Conns |-> "new"]
  /\ engine = [e \in Engines |-> NoEngineRec]
  /\ inflight = [e \in Engines |-> 0]
  /\ nEngines = 0
  /\ nMsgs = 0
  /\ threw = {}
  /\ ui = [i \in UIIds |-> NoUI]

Init == InitBackend /\ InitTerminal /\ InitCodec /\ InitClient /\ InitApi

\* ------------------------------------------------------------------------
\* WebSocketService.handleConnection
\* ------------------------------------------------------------------------
\* handleConnection after `await ensureProcessExists`: the `connected`
\* message goes through sendMessage, then the socket handlers are attached
HandleConnectionTail(c, k, cn, cs, sk, thr) ==
  /\ nMsgs < MaxMsgs
  /\ thr \subseteq SendTargets(cn, cs, sk, k)
  /\ LET m == Frame("connected", nMsgs + 1)
     IN /\ conn' = sendMessageConn(cn, cs, sk, k, m, thr)
        /\ wire' = sendMessageWire(wire, cn, cs, sk, k, m, thr)
  /\ sock' = [sk EXCEPT ![c].handlers = TRUE]
  /\ connections' = cs
  /\ pc' = [pc EXCEPT ![c] = "attached"]
  /\ nMsgs' = nMsgs + 1
  /\ threw' = thr

\* ensureProcessExists up to its first suspension: "return" when it returns
\* without spawning, "spawn" when it reaches `await spawnProcess`
ensureProcessExists(ss, k) ==
  IF getProcess(k) # NoProcess THEN "return"
  ELSE IF k \notin ss THEN "return"
  ELSE "spawn"

\* the route handler of /ws/session/*: resolution, then handleConnection up
\* to the first await that suspends
WsConnect(c, k) ==
  /\ pc[c] = "new"
  /\ LET r == findSession(k)
         cn == [conn EXCEPT ![c] = [sessionPath |-> k, isAlive |-> TRUE,
                                    messageQueue |-> <<>>, isPaused |-> FALSE]]
         cs == addConnection(connections, k, c)
         sk == [sock EXCEPT ![c].readyState = "open"]
     IN /\ sessions' = r.sessions
        /\ IF ~r.found
           THEN /\ sock' = [sock EXCEPT ![c] = [readyState |-> "closed",
                                                handlers |-> FALSE, code |-> 1008,
                                                ping |-> "none"]]
                /\ pc' = [pc EXCEPT ![c] = "rejected"]
                /\ threw' = {}
                /\ UNCHANGED <<conn, connections, wire, nMsgs>>
           ELSE IF ensureProcessExists(r.sessions, k) = "spawn"
           THEN /\ conn' = cn
                /\ connections' = cs
                /\ sock' = sk
                /\ pc' = [pc EXCEPT ![c] = "spawning"]
                /\ threw' = {}
                /\ UNCHANGED <<wire, nMsgs>>
           ELSE \E thr \in SUBSET Conns : HandleConnectionTail(c, k, cn, cs, sk, thr)
  /\ UNCHANGED <<scanned, processes, executingSessions, engine, inflight, nEngines>>
  /\ UNCHANGED ui
  /\ UNCHANGED <<tvars, pvars, rvars, avars>>

\* what spawnProcess registers once createAgentSession resolved with engine e
spawnProcess(ps, k, e) ==
  [ps EXCEPT ![k] = [eng |-> e, isReady |-> TRUE, pendingExtensionUIs |-> {}]]

\* ProcessManager.spawnProcess after createAgentSession resolved, followed by
\* the rest of handleConnection
SpawnResolve(c) ==
  /\ pc[c] = "spawning"
  /\ nEngines < MaxEngines
  /\ LET k == conn[c].sessionPath
         e == nEngines + 1
     IN /\ engine' = [engine EXCEPT ![e] = [st |-> "live", key |-> k,
                                            subscribed |-> TRUE,
                                            disposals |-> 0]]
        /\ processes' = spawnProcess(processes, k, e)
        /\ nEngines' = e
        /\ \E thr \in SUBSET Conns :
             HandleConnectionTail(c, k, conn, connections, sock, thr)
  /\ UNCHANGED <<sessions, scanned, executingSessions, inflight>>
  /\ UNCHANGED ui
  /\ UNCHANGED <<tvars, pvars, rvars, avars>>

\* createAgentSession rejected: ensureProcessExists catches the error and
\* handleConnection carries on
SpawnReject(c) ==
  /\ pc[c] = "spawning"
  /\ \E thr \in SUBSET Conns :
       HandleConnectionTail(c, conn[c].sessionPath, conn, connections, sock, thr)
  /\ UNCHANGED <<sessions, scanned, processes, executingSessions, engine,
                 inflight, nEngines>>
  /\ UNCHANGED ui
  /\ UNCHANGED <<tvars, pvars, rvars, avars>>

\* ------------------------------------------------------------------------
\* Socket events
\* ------------------------------------------------------------------------
\* WebSocketService.handleDisconnect: the connection sets afterwards
handleDisconnect(cs, k, c) ==
  IF c \in cs[k] THEN removeConnection(cs, k, c) ELSE cs

\* a settlement of the requests `ids` that leaves their timeouts running
settle_KeepTimeout(u, ids, outcome) ==
  [i \in UIIds |-> IF i \in ids
                   THEN [st |-> outcome, settled |-> u[i].settled + 1,
                         timer |-> u[i].timer]
                   ELSE u[i]]

\* a settlement of the requests `ids`: clearTimeout(pending.timeout), then
\* each is counted and gets the outcome
settle(u, ids, outcome) ==
  [i \in UIIds |-> IF i \in ids
                   THEN [st |-> outcome, settled |-> u[i].settled + 1,
                         timer |-> "cleared"]
                   ELSE u[i]]

\* handleDisconnect, second half, without the test that no connection of
\* the session remains
lastDisconnected_AnyDisconnect(cs, k, c) == getProcess(k) # NoProcess

\* handleDisconnect, second half: no connection of the session remains and
\* a handle is registered
lastDisconnected(cs, k, c) ==
  handleDisconnect(cs, k, c)[k] = {} /\ getProcess(k) # NoProcess

\* handleDisconnect without pendingExtensionUIs.clear()
handleDisconnectProcesses_NoClear(ps, cs, k, c) == ps

\* handleDisconnect: the handles afterwards
handleDisconnectProcesses(ps, cs, k, c) ==
  IF lastDisconnected(cs, k, c)
  THEN [ps EXCEPT ![k].pendingExtensionUIs = {}]
  ELSE ps

\* handleDisconnect: the extension-UI requests afterwards
handleDisconnectUI(u, cs, k, c) ==
  IF lastDisconnected(cs, k, c)
  THEN settle(u, getProcess(k).pendingExtensionUIs, "rejected")
  ELSE u

\* the socket closes (peer close, or the end of a close() the server
\* started); the 'close' handler runs only if it is attached by then
SocketClose(c) ==
  /\ sock[c].readyState \in {"open", "closing"}
  /\ sock' = [sock EXCEPT ![c].readyState = "closed"]
  /\ connections' = IF sock[c].handlers
                    THEN handleDisconnect(connections, conn[c].sessionPath, c)
                    ELSE connections
  /\ processes' = IF sock[c].handlers
                  THEN handleDisconnectProcesses(processes, connections,
                                                 conn[c].sessionPath, c)
                  ELSE processes
  /\ ui' = IF sock[c].handlers
           THEN handleDisconnectUI(ui, connections, conn[c].sessionPath, c)
           ELSE ui
  /\ threw' = {}
  /\ UNCHANGED <<sessions, scanned, executingSessions, conn, wire, pc,
                 engine, inflight, nEngines, nMsgs>>
  /\ UNCHANGED <<tvars, pvars, rvars, avars>>

\* the 'drain' handler on the connection record: isPaused = false, then
\* flushMessageQueue
drainHandler(cn, open, failAt) ==
  flushMessageQueue([cn EXCEPT !.isPaused = FALSE], open, failAt)

\* the 'drain' handler of socket c
Drain(c, failAt) ==
  /\ sock[c].handlers
  /\ sock[c].readyState \in {"open", "closing"}
  /\ failAt \in 0..Len(conn[c].messageQueue)
  /\ LET r == drainHandler(conn[c], IsOpen(c), failAt)
     IN /\ conn' = [conn EXCEPT ![c] = r.cn]
        /\ wire' = [wire EXCEPT ![c] = @ \o r.out]
        /\ threw' = IF r.cn.isPaused THEN {c} ELSE {}
  /\ UNCHANGED <<sessions, scanned, processes, connections, executingSessions, sock,
                 pc, engine, inflight, nEngines, nMsgs>>
  /\ UNCHANGED ui
  /\ UNCHANGED <<tvars, pvars, rvars, avars>>

\* ------------------------------------------------------------------------
\* Commands (WebSocketService.handleMessage -> SessionManager.sendCommand ->
\* ProcessManager.sendCommand)
\* ------------------------------------------------------------------------
Commands == {"prompt", "prompt_no_message"}

\* case 'prompt' of ProcessManager.sendCommand. A prompt command without a
\* message field throws at promptMessage.slice, inside the try and after the
\* lock was taken; the catch returns false.
SendPrompt(k, e, hasMessage) ==
  LET l == acquireExecutionLock(executingSessions, k)
  IN IF ~l.ok
     THEN /\ nMsgs < MaxMsgs
          /\ \E thr \in SUBSET OpenConns(k) :
               /\ wire' = broadcastError(wire, k, Frame("busy", nMsgs + 1), thr)
               /\ threw' = thr
          /\ nMsgs' = nMsgs + 1
          /\ UNCHANGED <<executingSessions, inflight>>
     ELSE /\ inflight[e] < MaxInflight
          /\ executingSessions' = l.ex
          /\ inflight' = IF hasMessage THEN [inflight EXCEPT ![e] = @ + 1]
                         ELSE inflight
          /\ threw' = {}
          /\ UNCHANGED <<wire, nMsgs>>

\* a `command` frame arrives on socket c
Message(c, cmd) ==
  /\ sock[c].handlers
  /\ IsOpen(c)
  /\ LET k == conn[c].sessionPath
         p == getProcess(k)
     IN /\ p # NoProcess
        /\ CASE cmd = "prompt" -> SendPrompt(k, p.eng, TRUE)
             [] cmd = "prompt_no_message" -> SendPrompt(k, p.eng, FALSE)
  /\ UNCHANGED <<sessions, scanned, processes, connections, conn, sock, pc, engine,
                 nEngines>>
  /\ UNCHANGED ui
  /\ UNCHANGED <<tvars, pvars, rvars, avars>>

\* the promise of session.sendUserMessage settles: .catch broadcasts the
\* error, .finally releases the lock of the session path of the handle
PromptSettle(e, ok) ==
  /\ inflight[e] > 0
  /\ inflight' = [inflight EXCEPT ![e] = @ - 1]
  /\ executingSessions' = releaseExecutionLock(executingSessions, engine[e].key)
  /\ IF ok
     THEN /\ threw' = {}
          /\ UNCHANGED <<wire, nMsgs>>
     ELSE /\ nMsgs < MaxMsgs
          /\ nMsgs' = nMsgs + 1
          /\ \E thr \in SUBSET OpenConns(engine[e].key) :
               /\ wire' = broadcastError(wire, engine[e].key,
                                         Frame("error", nMsgs + 1), thr)
               /\ threw' = thr
  /\ UNCHANGED <<sessions, scanned, processes, connections, conn, sock, pc, engine,
                 nEngines>>
  /\ UNCHANGED ui
  /\ UNCHANGED <<tvars, pvars, rvars, avars>>

\* a subscribed engine emits an event: the subscription callback of
\* spawnProcess calls handleSessionEvent with the handle it was made for
EngineEvent(e) ==
  /\ engine[e].st = "live"
  /\ engine[e].subscribed
  /\ nMsgs < MaxMsgs
  /\ nMsgs' = nMsgs + 1
  /\ \E thr \in SUBSET OpenConns(engine[e].key) :
       /\ wire' = handleSessionEvent(wire, engine[e].key, Frame("event", nMsgs + 1), thr)
       /\ threw' = thr
  /\ dropped' = IF getConnections(engine[e].key) = {}
                THEN dropped \cup {nMsgs + 1}
                ELSE dropped
  /\ UNCHANGED <<sessions, scanned, processes, connections, executingSessions, conn,
                 sock, pc, engine, inflight, nEngines>>
  /\ UNCHANGED ui
  /\ UNCHANGED <<tvars, pvars, rvars, creates, logged>>

\* ------------------------------------------------------------------------
\* SessionManager.deleteSession (killProcess, cleanupProcess, close of the
\* sockets, State.cleanupSession); no await in it suspends
\* ------------------------------------------------------------------------
\* killProcess: unsubscribe() and session.dispose() on the registered handle
\* killProcess without the call of piProcess.unsubscribe()
killProcess_KeepSubscription(eng, k) ==
  IF getProcess(k) = NoProcess THEN eng
  ELSE [eng EXCEPT ![getProcess(k).eng].st = "disposed",
                   ![getProcess(k).eng].disposals = @ + 1]

killProcess(eng, k) ==
  IF getProcess(k) = NoProcess THEN eng
  ELSE [eng EXCEPT ![getProcess(k).eng].st = "disposed",
                   ![getProcess(k).eng].subscribed = FALSE,
                   ![getProcess(k).eng].disposals = @ + 1]

DeleteSession(k) ==
  /\ k \in sessions
  /\ engine' = killProcess(engine, k)
  /\ IF getProcess(k) # NoProcess
     THEN /\ nMsgs < MaxMsgs
          /\ nMsgs' = nMsgs + 1
          /\ \E thr \in SUBSET OpenConns(k) :
               /\ wire' = directBroadcast(wire, k, Frame("disconnected", nMsgs + 1), thr)
               /\ threw' = thr
     ELSE /\ threw' = {}
          /\ UNCHANGED <<wire, nMsgs>>
  /\ sock' = [c \in Conns |->
                IF c \in connections[k] /\ sock[c].readyState = "open"
                THEN [sock[c] EXCEPT !.readyState = "closing"]
                ELSE sock[c]]
  /\ sessions' = sessions \ {k}
  /\ processes' = [processes EXCEPT ![k] = NoProcess]
  /\ ui' = settle(ui, getProcess(k).pendingExtensionUIs, "rejected")
  /\ connections' = [connections EXCEPT ![k] = {}]
  /\ executingSessions' = executingSessions \ {k}
  /\ UNCHANGED <<scanned, conn, pc, inflight, nEngines>>
  /\ UNCHANGED <<tvars, pvars, rvars, avars>>

Next ==
  \/ \E c \in Conns, k \in Keys : WsConnect(c, k)
  \/ \E c \in Conns : SpawnResolve(c)
  \/ \E c \in Conns : SpawnReject(c)
  \/ \E c \in Conns : SocketClose(c)
  \/ \E c \in Conns : \E failAt \in FailPoints(Len(conn[c].messageQueue)) : Drain(c, failAt)
  \/ \E c \in Conns, cmd \in Commands : Message(c, cmd)
  \/ \E e \in Engines, ok \in BOOLEAN : PromptSettle(e, ok)
  \/ \E e \in Engines : EngineEvent(e)
  \/ \E k \in Keys : DeleteSession(k)

Spec == Init /\ [][Next]_vars

\* ------------------------------------------------------------------------
\* SpecConn: connections coming and going under the heartbeat, with
\* extension-UI requests pending on the handle and session deletion.
\* ------------------------------------------------------------------------
\* the engine asks for human input: a request is added to the pending map of
\* the session's handle
ExtensionUIRequest(k, id) ==
  /\ getProcess(k) # NoProcess
  /\ engine[getProcess(k).eng].st = "live"
  /\ ui[id].st = "none"
  /\ \A j \in UIIds : j < id => ui[j].st # "none"
  /\ processes' = [processes EXCEPT ![k].pendingExtensionUIs = @ \cup {id}]
  /\ ui' = [ui EXCEPT ![id] = [st |-> "pending", settled |-> 0,
                                timer |-> "armed"]]
  /\ threw' = {}
  /\ UNCHANGED <<sessions, scanned, connections, executingSessions, conn, sock,
                 wire, pc, engine, inflight, nEngines, nMsgs>>
  /\ UNCHANGED <<tvars, pvars, rvars, avars>>

\* ProcessManager.handleExtensionUIResponse: the handles afterwards
handleExtensionUIResponse(ps, k, id) ==
  IF getProcess(k) = NoProcess \/ id \notin getProcess(k).pendingExtensionUIs
  THEN ps
  ELSE [ps EXCEPT ![k].pendingExtensionUIs = @ \ {id}]

\* handleMessage for an extension_ui_response frame with the given id
ExtensionUIResponse(c, id) ==
  /\ sock[c].handlers
  /\ IsOpen(c)
  /\ LET k == conn[c].sessionPath
     IN /\ processes' = handleExtensionUIResponse(processes, k, id)
        /\ ui' = IF processes' = processes THEN ui ELSE settle(ui, {id}, "resolved")
  /\ threw' = {}
  /\ UNCHANGED <<sessions, scanned, connections, executingSessions, conn, sock,
                 wire, pc, engine, inflight, nEngines, nMsgs>>
  /\ UNCHANGED <<tvars, pvars, rvars, avars>>

\* the connections the heartbeat finds in the registry
Registered == UNION {connections[k] : k \in Keys}

\* the loop of the heartbeat over the connections `todo`: a connection that
\* is not alive goes through handleDisconnect, any other is marked not alive
\* and pinged if its socket is open; st holds the connection sets, the
\* handles, the requests, the connection records and the sockets
\* the loop of the interval without the timeout branch: every connection
\* is marked not alive and pinged
RECURSIVE tickLoop_PingOnly(_, _)
tickLoop_PingOnly(st, todo) ==
  IF todo = {}
  THEN st
  ELSE LET c == CHOOSE x \in todo : TRUE
       IN tickLoop_PingOnly(
            [st EXCEPT
               !.cn[c].isAlive = FALSE,
               !.sk[c].ping = IF IsOpen(c) THEN "sent" ELSE @],
            todo \ {c})

RECURSIVE tickLoop(_, _)
tickLoop(st, todo) ==
  IF todo = {}
  THEN st
  ELSE LET c == CHOOSE x \in todo : TRUE
           k == conn[c].sessionPath
       IN IF ~conn[c].isAlive
          THEN tickLoop(
                 [st EXCEPT
                    !.cs = handleDisconnect(@, k, c),
                    !.ps = handleDisconnectProcesses(@, st.cs, k, c),
                    !.u = handleDisconnectUI(@, st.cs, k, c)],
                 todo \ {c})
          ELSE tickLoop(
                 [st EXCEPT
                    !.cn[c].isAlive = FALSE,
                    !.sk[c].ping = IF IsOpen(c) THEN "sent" ELSE @],
                 todo \ {c})

\* one tick of the interval of startPingInterval
Tick ==
  /\ Registered # {}
  /\ LET r == tickLoop([cs |-> connections, ps |-> processes, u |-> ui,
                        cn |-> conn, sk |-> sock], Registered)
     IN /\ connections' = r.cs
        /\ processes' = r.ps
        /\ ui' = r.u
        /\ conn' = r.cn
        /\ sock' = r.sk
  /\ threw' = {}
  /\ UNCHANGED <<sessions, scanned, executingSessions, wire, pc, engine,
                 inflight, nEngines, nMsgs>>
  /\ UNCHANGED <<tvars, pvars, rvars, avars>>

\* the peer answers the ping it was sent; the 'pong' handler, if it is
\* attached by then, marks the connection alive
Pong(c) ==
  /\ IsOpen(c)
  /\ sock[c].ping = "sent"
  /\ sock' = [sock EXCEPT ![c].ping = "answered"]
  /\ conn' = IF sock[c].handlers THEN [conn EXCEPT ![c].isAlive = TRUE] ELSE conn
  /\ threw' = {}
  /\ UNCHANGED <<sessions, scanned, processes, connections, executingSessions,
                 wire, pc, engine, inflight, nEngines, nMsgs, ui>>
  /\ UNCHANGED <<tvars, pvars, rvars, avars>>

NextConn ==
  \/ \E c \in Conns, k \in Paths : WsConnect(c, k)
  \/ \E c \in Conns : SpawnResolve(c)
  \/ \E c \in Conns : SpawnReject(c)
  \/ \E c \in Conns : SocketClose(c)
  \/ \E k \in Keys, id \in UIIds : ExtensionUIRequest(k, id)
  \/ \E c \in Conns, id \in UIIds : ExtensionUIResponse(c, id)
  \/ Tick
  \/ \E c \in Conns : Pong(c)
  \/ \E k \in Keys : DeleteSession(k)

SpecConn == Init /\ [][NextConn]_vars

\* ------------------------------------------------------------------------
\* SpecQueue: the outbound queue of one attached connection, driven through
\* sendMessage, the drain handler and the close handler. It starts in the
\* state Spec reaches after WsConnect("c1", "k1") and SpawnResolve("c1"); the
\* frames written to the socket are not recorded in it.
\* ------------------------------------------------------------------------
InitQueue ==
  /\ sessions = {"k1"}
  /\ scanned = Keys
  /\ processes = [k \in ProcKeys |->
                    IF k \in Keys
                    THEN [eng |-> 1, isReady |-> TRUE,
                          pendingExtensionUIs |-> {}]
                    ELSE NoProcess]
  /\ connections = [k \in Keys |-> {"c1"}]
  /\ executingSessions = {}
  /\ conn = [c \in Conns |->
               IF c = "c1"
               THEN [sessionPath |-> "k1", isAlive |-> TRUE,
                     messageQueue |-> <<>>, isPaused |-> FALSE]
               ELSE NewConn]
  /\ sock = [c \in Conns |->
               IF c = "c1"
               THEN [readyState |-> "open", handlers |-> TRUE, code |-> 0,
                     ping |-> "none"]
               ELSE NewSock]
  /\ wire = [c \in Conns |-> IF c = "c1" THEN <<Frame("connected", 1)>> ELSE <<>>]
  /\ pc = [c \in Conns |-> IF c = "c1" THEN "attached" ELSE "new"]
  /\ engine = [e \in Engines |->
                 IF e = 1 THEN [st |-> "live", key |-> "k1", subscribed |-> TRUE,
                               disposals |-> 0]
                 ELSE NoEngineRec]
  /\ inflight = [e \in Engines |-> 0]
  /\ nEngines = 1
  /\ nMsgs = 1
  /\ threw = {}
  /\ ui = [i \in UIIds |-> NoUI]
  /\ InitTerminal
  /\ InitCodec
  /\ InitClient
  /\ InitApi

\* sendMessage(k, message) with the next message; without a connection
\* sendMessage returns false at once
QSendMessage(k) ==
  /\ nMsgs < MaxSubmit
  /\ getConnections(k) # {}
  /\ \E thr \in SUBSET SendTargets(conn, connections, sock, k) :
       /\ conn' = sendMessageConn(conn, connections, sock, k,
                                  Frame("message", nMsgs + 1), thr)
       /\ threw' = thr
  /\ nMsgs' = nMsgs + 1
  /\ UNCHANGED <<sessions, scanned, processes, connections, executingSessions, sock,
                 wire, pc, engine, inflight, nEngines>>
  /\ UNCHANGED ui
  /\ UNCHANGED <<tvars, pvars, rvars, avars>>

\* the 'drain' handler of socket c
QDrain(c, failAt) ==
  /\ sock[c].handlers
  /\ sock[c].readyState \in {"open", "closing"}
  /\ failAt \in 0..Len(conn[c].messageQueue)
  /\ LET r == drainHandler(conn[c], IsOpen(c), failAt)
     IN /\ conn' = [conn EXCEPT ![c] = r.cn]
        /\ threw' = IF r.cn.isPaused THEN {c} ELSE {}
  /\ UNCHANGED <<sessions, scanned, processes, connections, executingSessions, sock,
                 wire, pc, engine, inflight, nEngines, nMsgs>>
  /\ UNCHANGED ui
  /\ UNCHANGED <<tvars, pvars, rvars, avars>>

NextQueue ==
  \/ \E k \in Keys : QSendMessage(k)
  \/ \E c \in Conns : \E failAt \in FailPoints(Len(conn[c].messageQueue)) : QDrain(c, failAt)
  \/ \E c \in Conns : SocketClose(c)

SpecQueue == InitQueue /\ [][NextQueue]_vars

\* ------------------------------------------------------------------------
\* SpecTerm: the terminal multiplexer. A terminal socket is accepted
\* (TermConnect: the route handler runs up to its awaits), then the handler
\* resumes and runs to its end in one turn (TermAttach); pty output, pty
\* exit, client messages, socket close and socket error are turns of their
\* own.
\* ------------------------------------------------------------------------
TermConnect(s, p, t) ==
  /\ tsock[s].pc = "new"
  /\ tsock' = [tsock EXCEPT ![s].readyState = "open", ![s].pc = "resolving",
                            ![s].path = p, ![s].key = makeTerminalKey(p, t)]
  /\ UNCHANGED <<terminalInstances, instance, twire, nInstances, nChunks>>
  /\ UNCHANGED <<bvars, pvars, rvars, avars>>

\* socket.close(code): nothing happens unless the socket is open
closeSocket(ts, s, code) ==
  IF ts[s].readyState = "open"
  THEN [ts EXCEPT ![s].readyState = "closing", ![s].code = code]
  ELSE ts

\* lines 335-354 of the route handler for the instance i returned by
\* getOrCreateTerminal; insts is the instance table after that call
AttachTo(s, i, insts) ==
  /\ instance' = [insts EXCEPT ![i].clients = @ \cup {s}]
  /\ twire' = replayHistory(termSendMessage(twire, tsock, s, Reply("ready")),
                            tsock, s, insts[i].history)
  /\ tsock' = [tsock EXCEPT ![s].pc = "attached", ![s].inst = i,
                            ![s].replayed = Len(insts[i].history)]

\* getOrCreateTerminal never finding a registered instance
getExisting_NeverFound(key) == NoInstance

\* the registered, non-disposed instance of a key, or NoInstance
getExisting(key) ==
  IF key \in TermKeys /\ terminalInstances[key] # NoInstance
     /\ ~instance[terminalInstances[key]].disposed
  THEN terminalInstances[key]
  ELSE NoInstance

TermAttach(s, spawnFails) ==
  /\ tsock[s].pc = "resolving"
  /\ LET r == terminalFindSession(tsock[s].path)
         key == tsock[s].key
         existing == getExisting(key)
         i == nInstances + 1
     IN /\ sessions' = r.sessions
        /\ IF ~r.found
           THEN /\ ~spawnFails
                /\ tsock' = [closeSocket(tsock, s, 1008) EXCEPT ![s].pc = "rejected"]
                /\ UNCHANGED <<terminalInstances, instance, twire, nInstances>>
           ELSE IF existing # NoInstance
           THEN /\ ~spawnFails
                /\ AttachTo(s, existing, instance)
                /\ UNCHANGED <<terminalInstances, nInstances>>
           ELSE /\ nInstances < MaxInstances
                /\ IF spawnFails
                   THEN /\ twire' = termSendMessage(twire, tsock, s, Reply("error"))
                        /\ tsock' = [closeSocket(tsock, s, 1011) EXCEPT ![s].pc = "failed"]
                        /\ UNCHANGED <<terminalInstances, instance, nInstances>>
                   ELSE /\ nInstances' = i
                        /\ terminalInstances' = [terminalInstances EXCEPT ![key] = i]
                        /\ AttachTo(s, i, [instance EXCEPT ![i] = NewInstanceRec(key)])
  /\ UNCHANGED nChunks
  /\ UNCHANGED <<scanned, processes, connections, executingSessions, conn,
                 sock, wire, pc, engine, inflight, nEngines, nMsgs, threw, ui>>
  /\ UNCHANGED <<pvars, rvars, avars>>

\* ptyProcess.onData
PtyData(i, b) ==
  /\ instance[i].pty \in {"running", "killed"}
  /\ nChunks < MaxChunks
  /\ IF instance[i].disposed
     THEN UNCHANGED <<instance, twire, nChunks>>
     ELSE LET ch == Chunk(nChunks + 1, b)
          IN /\ nChunks' = nChunks + 1
             /\ instance' = [instance EXCEPT ![i] = appendHistory(@, ch)]
             /\ twire' = broadcast(twire, tsock, instance[i], TFrame("output", ch))
  /\ UNCHANGED <<terminalInstances, tsock, nInstances>>
  /\ UNCHANGED <<bvars, pvars, rvars, avars>>

\* ptyProcess.onExit
PtyExit(i) ==
  /\ instance[i].pty \in {"running", "killed"}
  /\ IF instance[i].disposed
     THEN /\ instance' = [instance EXCEPT ![i].pty = "exited"]
          /\ UNCHANGED <<terminalInstances, tsock, twire>>
     ELSE /\ instance' = [instance EXCEPT ![i].pty = "exited",
                                          ![i].disposed = TRUE,
                                          ![i].clients = {}]
          /\ terminalInstances' =
               [terminalInstances EXCEPT ![instance[i].key] = NoInstance]
          /\ twire' = broadcast(twire, tsock, instance[i], Reply("exit"))
          /\ tsock' = closeClients(tsock, instance[i].clients, 1000)
  /\ UNCHANGED <<nInstances, nChunks>>
  /\ UNCHANGED <<bvars, pvars, rvars, avars>>

\* disposeTerminalInstance without the test of instance.disposed
disposeTerminalInstance_NoGuard(i) ==
  /\ instance' = [instance EXCEPT
                    ![i].calls = @ + 1,
                    ![i].disposed = TRUE,
                    ![i].pty = IF @ = "running" THEN "killed" ELSE @,
                    ![i].clients = {}]
  /\ terminalInstances' =
       [terminalInstances EXCEPT ![instance[i].key] = NoInstance]
  /\ tsock' = closeClients(tsock, instance[i].clients, 1000)

\* disposeTerminalInstance(instance, reason); calls counts the calls made
disposeTerminalInstance(i) ==
  IF instance[i].disposed
  THEN /\ instance' = [instance EXCEPT ![i].calls = @ + 1]
       /\ UNCHANGED <<terminalInstances, tsock>>
  ELSE /\ instance' = [instance EXCEPT
                         ![i].calls = @ + 1,
                         ![i].disposed = TRUE,
                         ![i].pty = IF @ = "running" THEN "killed" ELSE @,
                         ![i].clients = {}]
       /\ terminalInstances' =
            [terminalInstances EXCEPT ![instance[i].key] = NoInstance]
       /\ tsock' = closeClients(tsock, instance[i].clients, 1000)

TermMessageTypes == {"invalid", "input", "close", "ping"}

\* socket.on('message')
TermMessage(s, type) ==
  /\ tsock[s].pc = "attached"
  /\ tsock[s].readyState \in {"open", "closing"}
  /\ LET i == tsock[s].inst
     IN IF type = "invalid" \/ instance[i].disposed
        THEN /\ Len(twire[s]) < MaxTermFrames
             /\ twire' = termSendMessage(twire, tsock, s, Reply("error"))
             /\ UNCHANGED <<instance, terminalInstances, tsock>>
        ELSE IF type = "input"
        THEN /\ instance[i].written < MaxInput
             /\ instance' = [instance EXCEPT ![i].written = @ + 1]
             /\ UNCHANGED <<terminalInstances, tsock, twire>>
        ELSE IF type = "close"
        THEN /\ disposeTerminalInstance(i)
             /\ UNCHANGED twire
        ELSE /\ Len(twire[s]) < MaxTermFrames
             /\ twire' = termSendMessage(twire, tsock, s, Reply("pong"))
             /\ UNCHANGED <<instance, terminalInstances, tsock>>
  /\ UNCHANGED <<nInstances, nChunks>>
  /\ UNCHANGED <<bvars, pvars, rvars, avars>>

\* a detach that disposes the instance when its last client leaves
detach_DisposeOnLast(insts, s) ==
  IF tsock[s].pc = "attached"
  THEN [insts EXCEPT ![tsock[s].inst].clients = @ \ {s},
                     ![tsock[s].inst].disposed =
                        @ \/ insts[tsock[s].inst].clients \subseteq {s},
                     ![tsock[s].inst].pty =
                        IF insts[tsock[s].inst].clients \subseteq {s}
                           /\ @ = "running"
                        THEN "killed" ELSE @]
  ELSE insts

\* the detach closure of a socket
detach(insts, s) ==
  IF tsock[s].pc = "attached"
  THEN [insts EXCEPT ![tsock[s].inst].clients = @ \ {s}]
  ELSE insts

\* socket 'close' event
TermSocketClose(s) ==
  /\ tsock[s].readyState \in {"open", "closing"}
  /\ tsock' = [tsock EXCEPT ![s].readyState = "closed"]
  /\ instance' = detach(instance, s)
  /\ UNCHANGED <<terminalInstances, twire, nInstances, nChunks>>
  /\ UNCHANGED <<bvars, pvars, rvars, avars>>

\* socket 'error' event: the socket is closing when it is emitted
TermSocketError(s) ==
  /\ tsock[s].pc = "attached"
  /\ tsock[s].readyState = "open"
  /\ tsock' = [tsock EXCEPT ![s].readyState = "closing"]
  /\ instance' = detach(instance, s)
  /\ UNCHANGED <<terminalInstances, twire, nInstances, nChunks>>
  /\ UNCHANGED <<bvars, pvars, rvars, avars>>

NextTerm ==
  \/ \E s \in TermSockets, p \in Paths, t \in TermIds : TermConnect(s, p, t)
  \/ \E s \in TermSockets, spawnFails \in BOOLEAN : TermAttach(s, spawnFails)
  \/ \E i \in Instances, b \in ChunkSizes : PtyData(i, b)
  \/ \E i \in Instances : PtyExit(i)
  \/ \E s \in TermSockets, type \in TermMessageTypes : TermMessage(s, type)
  \/ \E s \in TermSockets : TermSocketClose(s)
  \/ \E s \in TermSockets : TermSocketError(s)

SpecTerm == Init /\ [][NextTerm]_vars

\* ------------------------------------------------------------------------
\* SpecHistory: the scrollback buffer of one terminal instance, driven
\* through appendHistory by its pty's output. It starts in the state SpecTerm
\* reaches after TermConnect("s1", "k1", "terminal-1") and TermAttach("s1").
\* ------------------------------------------------------------------------
InitHistory ==
  /\ sessions = {"k1"}
  /\ scanned = Keys
  /\ processes = [k \in ProcKeys |-> NoProcess]
  /\ connections = [k \in Keys |-> {}]
  /\ executingSessions = {}
  /\ conn = [c \in Conns |-> NewConn]
  /\ sock = [c \in Conns |-> NewSock]
  /\ wire = [c \in Conns |-> <<>>]
  /\ pc = [c \in Conns |-> "new"]
  /\ engine = [e \in Engines |-> NoEngineRec]
  /\ inflight = [e \in Engines |-> 0]
  /\ nEngines = 0
  /\ nMsgs = 0
  /\ threw = {}
  /\ ui = [i \in UIIds |-> NoUI]
  /\ terminalInstances =
       [key \in TermKeys |->
          IF key = makeTerminalKey("k1", "terminal-1") THEN 1 ELSE NoInstance]
  /\ instance = [i \in Instances |->
                   IF i = 1
                   THEN [NewInstanceRec(makeTerminalKey("k1", "terminal-1"))
                           EXCEPT !.clients = {"s1"}]
                   ELSE NoInstanceRec]
  /\ tsock = [s \in TermSockets |->
                IF s = "s1"
                THEN [readyState |-> "open", code |-> 0, pc |-> "attached",
                      key |-> makeTerminalKey("k1", "terminal-1"),
                      path |-> "k1", inst |-> 1, replayed |-> 0]
                ELSE NewTermSock]
  /\ twire = [s \in TermSockets |-> IF s = "s1" THEN <<Reply("ready")>> ELSE <<>>]
  /\ nInstances = 1
  /\ nChunks = 0
  /\ InitCodec
  /\ InitClient
  /\ InitApi

\* ptyProcess.onData of a live instance: appendHistory, then a broadcast
HistoryData(i, b) ==
  /\ instance[i].pty = "running"
  /\ ~instance[i].disposed
  /\ nChunks < MaxAppends
  /\ nChunks' = nChunks + 1
  /\ instance' = [instance EXCEPT ![i] = appendHistory(@, Chunk(nChunks + 1, b))]
  /\ twire' = broadcast(twire, tsock, instance[i],
                        TFrame("output", Chunk(nChunks + 1, b)))
  /\ UNCHANGED <<terminalInstances, tsock, nInstances>>
  /\ UNCHANGED <<bvars, pvars, rvars, avars>>

NextHistory == \E i \in Instances, b \in HistorySizes : HistoryData(i, b)

SpecHistory == InitHistory /\ [][NextHistory]_vars

\* ------------------------------------------------------------------------
\* Claims
\* ------------------------------------------------------------------------
LiveEngines(k) == {e \in Engines : engine[e].st = "live" /\ engine[e].subscribed
                                   /\ engine[e].key = k}

\* C1: for every session key at most one engine instance is live
\* (constructed, subscribed, not disposed) at any time.
C1_AtMostOneLiveEngine == \A k \in Keys : Cardinality(LiveEngines(k)) <= 1

\* C2: single-flight prompts: the engine registered for a session never has
\* more than one prompt in flight.
C2_SingleFlight ==
  \A k \in Keys : getProcess(k) # NoProcess => inflight[getProcess(k).eng] <= 1

\* C3: the execution lock of a session is held only while a prompt that
\* acquired it is still unsettled; every outcome of a prompt command that
\* acquired the lock leaves it free.
C3_LockReleased ==
  \A k \in executingSessions : \E e \in Engines : engine[e].key = k /\ inflight[e] > 0

EventFrames(w) == SelectSeq(w, LAMBDA f : f.type = "event")

InSeqOrder(w) == \A i, j \in DOMAIN w : i < j => w[i].seq < w[j].seq

\* the step is an engine event of session k and every connection in `to`
\* got the event frame appended to what its socket had received
EventReaches(e, to) ==
  EngineEvent(e) =>
    \A c \in to : wire'[c] = Append(wire[c], Frame("event", nMsgs + 1))

C5_ConnectedImpliesReady ==
  [][\A c \in Conns :
       (pc[c] # "attached" /\ pc'[c] = "attached" /\ wire'[c] # wire[c])
         => processes'[conn'[c].sessionPath].isReady]_vars

\* C8: the frames written to a socket appear in the order in which they were
\* produced for the connection.
C8_WireInProductionOrder == \A c \in Conns : InSeqOrder(wire[c])

\* the messages numbered from..to, in submission order
Submitted(from, to) == [i \in 1..(to - from + 1) |-> Frame("message", from + i - 1)]

QueueOf(c) == conn[c].messageQueue

\* C6: while a connection stays paused, its queue holds the most recently
\* submitted messages in submission order, every sendMessage adds one message
\* until the queue holds MAX_BUFFERED_MESSAGES, and from then on each
\* sendMessage leaves exactly the MAX_BUFFERED_MESSAGES most recent ones.
C6_DropOldest ==
  [][\A c \in Conns :
       /\ (IsOpen(c) /\ conn'[c].isPaused /\ QueueOf(c)' # <<>>)
            => QueueOf(c)' = Submitted(nMsgs' - Len(QueueOf(c)') + 1, nMsgs')
       /\ (IsOpen(c) /\ conn[c].isPaused /\ c \in getConnections("k1")
           /\ QSendMessage("k1"))
            => Len(QueueOf(c)') =
                 IF Len(QueueOf(c)) < MAX_BUFFERED_MESSAGES
                 THEN Len(QueueOf(c)) + 1 ELSE MAX_BUFFERED_MESSAGES]_vars

\* more than MAX_BUFFERED_MESSAGES messages were submitted since the
\* connection paused: message 2 threw, 3..103 were queued, 3 was dropped
C6_Witness ==
  /\ conn["c1"].isPaused /\ IsOpen("c1")
  /\ nMsgs = MAX_BUFFERED_MESSAGES + 3
  /\ QueueOf("c1") = Submitted(4, MAX_BUFFERED_MESSAGES + 3)

\* C7: a connection's outbound queue never holds more than
\* MAX_BUFFERED_MESSAGES messages.
C7_QueueBounded == \A c \in Conns : Len(QueueOf(c)) <= MAX_BUFFERED_MESSAGES

\* a flush of a full queue failed and put the message back
C7_Witness ==
  \E c \in threw : conn[c].isPaused /\ Len(QueueOf(c)) = MAX_BUFFERED_MESSAGES

\* C9: a flush that hits a send failure at its i-th message leaves the
\* connection paused with the failed message at the head of the queue, the
\* queue being exactly the messages from the i-th on, in order.
C9_FlushFailureRequeues ==
  [][\A c \in Conns : \A i \in FailPoints(Len(QueueOf(c))) \ {0} :
       (IsOpen(c) /\ QDrain(c, i))
         => /\ conn'[c].isPaused
            /\ QueueOf(c)' = SubSeq(QueueOf(c), i, Len(QueueOf(c)))
            /\ Head(QueueOf(c)') = QueueOf(c)[i]]_vars

\* a flush failed after it had sent a part of a long queue
C9_Witness ==
  \E c \in threw :
    /\ conn[c].isPaused
    /\ Len(QueueOf(c)) > 1
    /\ Head(QueueOf(c)).seq > 3
    /\ QueueOf(c)[Len(QueueOf(c))].seq = nMsgs
    /\ nMsgs < MAX_BUFFERED_MESSAGES

\* the chunks of the output frames written to a terminal socket, in order
OutputChunks(w) ==
  LET o == SelectSeq(w, LAMBDA f : f.type = "output")
  IN [n \in 1..Len(o) |-> o[n].chunk]

IncreasingIds(cs) == \A a, b \in 1..Len(cs) : a < b => cs[a].id < cs[b].id

\* C10: terminal attach handoff. The turn that attaches an open socket
\* writes to it, in order, exactly the chunks the scrollback buffer of the
\* instance holds at that moment (none for a freshly spawned instance); from
\* then on, while the socket is open, every chunk the pty of its instance
\* outputs is appended to what the socket received, and no other turn adds
\* an output frame; so no chunk reaches the socket twice and none is
\* skipped, whatever pty output precedes or follows the attach.
C10_AttachHandoff ==
  [][\A s \in TermSockets :
       /\ (tsock[s].pc = "resolving" /\ tsock'[s].pc = "attached"
           /\ tsock[s].readyState = "open")
            => OutputChunks(twire'[s]) =
                 (IF getExisting(tsock[s].key) # NoInstance
                  THEN instance[getExisting(tsock[s].key)].history
                  ELSE <<>>)
       /\ (tsock[s].pc = "attached" /\ tsock[s].readyState = "open")
            => /\ \A b \in ChunkSizes :
                    PtyData(tsock[s].inst, b)
                      => OutputChunks(twire'[s]) =
                           Append(OutputChunks(twire[s]), Chunk(nChunks + 1, b))
               /\ (~ \E b \in ChunkSizes : PtyData(tsock[s].inst, b))
                    => OutputChunks(twire'[s]) = OutputChunks(twire[s])
       /\ IncreasingIds(OutputChunks(twire'[s]))
    ]_vars

\* a socket that was replayed a non-empty scrollback at its attach and has
\* received live output since
C10_Witness ==
  \E s \in TermSockets :
    /\ tsock[s].pc = "attached"
    /\ tsock[s].replayed >= 1
    /\ Len(OutputChunks(twire[s])) > tsock[s].replayed

RECURSIVE SumBytes(_)
SumBytes(h) == IF h = <<>> THEN 0 ELSE Head(h).bytes + SumBytes(Tail(h))

\* C11: the chunks of a terminal instance's scrollback never add up to more
\* than MAX_HISTORY_BYTES, and historyBytes is their total, after any
\* sequence of appends, an append of one chunk larger than the cap included.
C11_HistoryWithinCap ==
  \A i \in Instances :
    /\ SumBytes(instance[i].history) <= MAX_HISTORY_BYTES
    /\ instance[i].historyBytes = SumBytes(instance[i].history)

\* a chunk larger than the cap was appended to a non-empty scrollback, which
\* is empty after it
C11_Witness ==
  /\ Len(twire["s1"]) = 3
  /\ twire["s1"][2].chunk.bytes = 1
  /\ twire["s1"][3].chunk.bytes = MAX_HISTORY_BYTES + 1
  /\ instance[1].history = <<>>
  /\ instance[1].historyBytes = 0

\* C12: a socket close or a heartbeat tick that removes a connection of a
\* session with a registered handle leaves the handle registered and the
\* engine subscribed and undisposed; if no connection of the session remains
\* every pending extension-UI request of the handle is rejected and its
\* pending map is empty, otherwise the pending requests are untouched.
C12_LastDisconnectRejectsPending ==
  [][\A k \in Keys :
       (/\ Tick \/ \E c \in Conns : SocketClose(c)
        /\ connections'[k] # connections[k]
        /\ getProcess(k) # NoProcess)
         => /\ processes'[k].eng = processes[k].eng
            /\ processes'[k].isReady = processes[k].isReady
            /\ engine' = engine
            /\ IF connections'[k] = {}
               THEN /\ processes'[k].pendingExtensionUIs = {}
                    /\ \A id \in processes[k].pendingExtensionUIs :
                         ui'[id] = [st |-> "rejected",
                                    settled |-> ui[id].settled + 1,
                                    timer |-> "cleared"]
                    /\ \A id \in UIIds \ processes[k].pendingExtensionUIs :
                         ui'[id] = ui[id]
               ELSE /\ processes'[k].pendingExtensionUIs =
                         processes[k].pendingExtensionUIs
                    /\ ui' = ui]_vars

\* the last connection of a session went away while two requests were
\* pending: both are rejected, the handle is registered, its engine live
C12_Witness ==
  \E k \in Keys :
    /\ connections[k] = {}
    /\ getProcess(k).eng = 1
    /\ nEngines = 1
    /\ engine[1].st = "live" /\ engine[1].subscribed
    /\ getProcess(k).pendingExtensionUIs = {}
    /\ \A id \in UIIds : ui[id] = [st |-> "rejected", settled |-> 1,
                                   timer |-> "cleared"]

\* C13: killProcess(k), as deleteSession calls it. With a handle registered
\* for k it rejects every pending extension-UI request of the handle,
\* unsubscribes from the engine, disposes the engine, which has then been
\* disposed exactly once, and removes the handle; with no handle for k (a
\* second call, or a key that never had one) it changes no handle, no engine
\* and no request and sends no message.
C13_KillProcessIdempotent ==
  [][\A k \in Keys :
       DeleteSession(k) =>
         IF getProcess(k) # NoProcess
         THEN LET e == getProcess(k).eng
              IN /\ \A id \in getProcess(k).pendingExtensionUIs :
                      ui'[id] = [st |-> "rejected",
                                 settled |-> ui[id].settled + 1,
                                 timer |-> "cleared"]
                 /\ \A id \in UIIds \ getProcess(k).pendingExtensionUIs :
                      ui'[id] = ui[id]
                 /\ ~engine'[e].subscribed
                 /\ engine'[e].st = "disposed"
                 /\ engine'[e].disposals = 1
                 /\ \A f \in Engines \ {e} : engine'[f] = engine[f]
                 /\ processes'[k] = NoProcess
         ELSE /\ engine' = engine
              /\ ui' = ui
              /\ processes' = processes
              /\ wire' = wire
              /\ nMsgs' = nMsgs]_vars

\* a session was deleted while a request was pending on its handle, and
\* deleted again, with no handle registered, after a second socket had
\* connected and before its spawn ended
C13_Witness ==
  /\ pc["c1"] = "attached" /\ sock["c1"].readyState = "closing"
  /\ pc["c2"] = "spawning" /\ sock["c2"].readyState = "closing"
  /\ engine[1].st = "disposed" /\ engine[1].disposals = 1
  /\ ~engine[1].subscribed
  /\ getProcess("k1") = NoProcess
  /\ ui[1] = [st |-> "rejected", settled |-> 1, timer |-> "cleared"]
  /\ "k1" \notin sessions

\* the step is a connection attempt of socket c for identifier p that the
\* resolution does not find
Rejects(c, p) == WsConnect(c, p) /\ pc'[c] = "rejected"

\* what a rejected attempt leaves for the requested identifier: the socket
\* closed with 1008, no session entry, no connection, no process
NothingFor(c, p) ==
  /\ sock'[c].readyState = "closed" /\ sock'[c].code = 1008
  /\ p \notin sessions'
  /\ connections' = connections
  /\ c \notin Registered'
  /\ processes' = processes
  /\ engine' = engine /\ nEngines' = nEngines

\* C14 (as amended): when the resolution of an identifier fails on all its
\* steps the socket is closed with code 1008 and nothing is registered for
\* the identifier: no session entry, no connection, no process; the session
\* entries the lazy load of the resolution added for the identifiers of the
\* scanned data stay.
C14_RejectedLeavesNothing ==
  [][\A c \in Conns, p \in Paths : Rejects(c, p) => NothingFor(c, p)]_vars

\* C14 as stated: the registry is left unchanged.
C14_RejectedLeavesRegistryUnchanged ==
  [][\A c \in Conns, p \in Paths :
       Rejects(c, p) => NothingFor(c, p) /\ sessions' = sessions]_vars

\* the only connection attempt so far was rejected, and its resolution has
\* loaded the sessions of the scanned data
C14_Witness ==
  /\ pc["c1"] = "rejected" /\ sock["c1"].code = 1008
  /\ pc["c2"] = "new"
  /\ sessions = scanned
  /\ Registered = {}
  /\ nEngines = 0

\* ------------------------------------------------------------------------
\* SpecCodec: encodePathForDirectory and decodePathFromDirectory applied to
\* one absolute path. A path is the sequence of its characters.
\* ------------------------------------------------------------------------
\* s.replace(/[...]/g, to): every character of the class becomes `to`
replaceAll(s, class, to) ==
  [i \in 1..Len(s) |-> IF s[i] \in class THEN to ELSE s[i]]

\* s.replace(/^[/\\]/, ""): one leading separator is removed
stripLeadingSeparator(s) ==
  IF Len(s) > 0 /\ s[1] \in {"/", "\\"} THEN Tail(s) ELSE s

encodePathForDirectory(path) ==
  <<"-", "-">> \o replaceAll(stripLeadingSeparator(path), {"/", "\\", ":"}, "-")
               \o <<"-", "-">>

\* s.replace(/^--/, "")
stripLeadingDashes(s) ==
  IF Len(s) >= 2 /\ s[1] = "-" /\ s[2] = "-" THEN SubSeq(s, 3, Len(s)) ELSE s

\* s.replace(/--$/, "")
stripTrailingDashes(s) ==
  IF Len(s) >= 2 /\ s[Len(s) - 1] = "-" /\ s[Len(s)] = "-"
  THEN SubSeq(s, 1, Len(s) - 2)
  ELSE s

decodePathFromDirectory(encoded) ==
  replaceAll(stripTrailingDashes(stripLeadingDashes(encoded)), {"-"}, "/")

\* the absolute paths of at most MaxPathLen characters
AbsPaths ==
  {p \in UNION {[1..n -> PathChars] : n \in 1..MaxPathLen} : p[1] = "/"}

InitPath ==
  /\ InitBackend
  /\ InitTerminal
  /\ InitClient
  /\ InitApi
  /\ cwd \in AbsPaths
  /\ dirName = <<>>
  /\ decodedPath = <<>>
  /\ codecPc = "input"

Encode ==
  /\ codecPc = "input"
  /\ dirName' = encodePathForDirectory(cwd)
  /\ codecPc' = "encoded"
  /\ UNCHANGED <<cwd, decodedPath>>
  /\ UNCHANGED <<bvars, tvars, rvars, avars>>

Decode ==
  /\ codecPc = "encoded"
  /\ decodedPath' = decodePathFromDirectory(dirName)
  /\ codecPc' = "decoded"
  /\ UNCHANGED <<cwd, dirName>>
  /\ UNCHANGED <<bvars, tvars, rvars, avars>>

NextCodec == Encode \/ Decode

SpecCodec == InitPath /\ [][NextCodec]_vars

\* the characters the round trip is not promised for
ReservedChars == {"-", ":", "\\"}

HasReserved(p) == \E i \in 1..Len(p) : p[i] \in ReservedChars

\* C15: for every absolute path p that contains none of '-', ':' and '\',
\* decodePathFromDirectory(encodePathForDirectory(p)) equals p.
C15_RoundTrip ==
  (codecPc = "decoded" /\ ~HasReserved(cwd)) => decodedPath = cwd

\* C16: encodePathForDirectory is injective on absolute paths: no absolute
\* path other than the encoded one has the same directory name.
C16_EncodeInjective ==
  codecPc \in {"encoded", "decoded"} =>
    \A q \in AbsPaths : q # cwd => encodePathForDirectory(q) # dirName

\* ------------------------------------------------------------------------
\* SpecClient: one PiSessionClient, driven by the hook that owns it (its
\* effect calls connect() once, its cleanup calls disconnect() once), by the
\* events of the sockets it has constructed and by its reconnect timers. A
\* timer is named after the socket whose close handler set it.
\* ------------------------------------------------------------------------
maxReconnectAttempts == 5

NoTimeout == 0

CloseCodes == {1000, 1006, 1008}

Min(a, b) == IF a <= b THEN a ELSE b

RECURSIVE Pow2(_)
Pow2(n) == IF n = 0 THEN 1 ELSE 2 * Pow2(n - 1)

UnusedSockets(cs) == {s \in ClientSockets : cs[s].readyState = "none"}

\* connect() either returns at once or has a socket left to construct
CanConnect(w, cs) ==
  \/ w # NoSocket /\ cs[w].readyState = "open"
  \/ UnusedSockets(cs) # {}

\* connect(): nothing while the current socket is open, else a new socket
\* replaces this.ws
connect(w, cs) ==
  IF w # NoSocket /\ cs[w].readyState = "open"
  THEN [ws |-> w, csock |-> cs]
  ELSE LET s == CHOOSE x \in UnusedSockets(cs) :
                  \A y \in UnusedSockets(cs) : x <= y
       IN [ws |-> s, csock |-> [cs EXCEPT ![s].readyState = "connecting"]]

\* attemptReconnect without the limit on the attempts
attemptReconnect_NoLimit(s) ==
  [reconnectAttempts |-> reconnectAttempts + 1,
   timers |-> [timers EXCEPT ![s] =
                 [st |-> "pending",
                  delay |-> Min(1000 * Pow2(reconnectAttempts), 30000)]],
   reconnectTimeout |-> s]

\* attemptReconnect(), called by the close handler of socket s
attemptReconnect(s) ==
  IF reconnectAttempts >= maxReconnectAttempts
  THEN [reconnectAttempts |-> reconnectAttempts, timers |-> timers,
        reconnectTimeout |-> reconnectTimeout]
  ELSE [reconnectAttempts |-> reconnectAttempts + 1,
        timers |-> [timers EXCEPT ![s] =
                      [st |-> "pending",
                       delay |-> Min(1000 * Pow2(reconnectAttempts), 30000)]],
        reconnectTimeout |-> s]

\* the hook's effect: the client is created and connect() is called
HookMount ==
  /\ hook = "created"
  /\ CanConnect(ws, csock)
  /\ LET r == connect(ws, csock)
     IN /\ ws' = r.ws
        /\ csock' = r.csock
  /\ hook' = "mounted"
  /\ UNCHANGED <<reconnectAttempts, reconnectTimeout, timers, isConnected>>
  /\ UNCHANGED <<bvars, tvars, pvars, avars>>

\* disconnect(): the last timer is cleared, the current socket is closed and
\* forgotten; its handlers stay attached
disconnect ==
  /\ timers' = IF reconnectTimeout # NoTimeout
                  /\ timers[reconnectTimeout].st = "pending"
               THEN [timers EXCEPT ![reconnectTimeout].st = "cleared"]
               ELSE timers
  /\ reconnectTimeout' = NoTimeout
  /\ csock' = IF ws # NoSocket
                 /\ csock[ws].readyState \in {"connecting", "open"}
              THEN [csock EXCEPT ![ws].readyState = "closing"]
              ELSE csock
  /\ ws' = NoSocket
  /\ isConnected' = FALSE
  /\ UNCHANGED reconnectAttempts

\* the cleanup of the hook's effect
HookUnmount ==
  /\ hook = "mounted"
  /\ disconnect
  /\ hook' = "unmounted"
  /\ UNCHANGED <<bvars, tvars, pvars, avars>>

\* ws.onopen of socket s
onopen(s) ==
  /\ csock[s].readyState = "connecting"
  /\ csock' = [csock EXCEPT ![s].readyState = "open", ![s].opened = TRUE]
  /\ reconnectAttempts' = 0
  /\ UNCHANGED <<ws, reconnectTimeout, timers, isConnected, hook>>
  /\ UNCHANGED <<bvars, tvars, pvars, avars>>

\* ws.onmessage of socket s with a 'connected' or a 'disconnected' message
onmessage(s, type) ==
  /\ csock[s].readyState \in {"open", "closing"}
  /\ isConnected' = (type = "connected")
  /\ UNCHANGED <<ws, csock, reconnectAttempts, reconnectTimeout, timers, hook>>
  /\ UNCHANGED <<bvars, tvars, pvars, avars>>

\* ws.onclose of socket s with the close code of the event
onclose(s, code) ==
  /\ csock[s].readyState \in {"connecting", "open", "closing"}
  /\ csock' = [csock EXCEPT ![s].readyState = "closed", ![s].code = code]
  /\ isConnected' = FALSE
  /\ IF code # 1008
     THEN LET r == attemptReconnect(s)
          IN /\ reconnectAttempts' = r.reconnectAttempts
             /\ timers' = r.timers
             /\ reconnectTimeout' = r.reconnectTimeout
     ELSE UNCHANGED <<reconnectAttempts, timers, reconnectTimeout>>
  /\ UNCHANGED <<ws, hook>>
  /\ UNCHANGED <<bvars, tvars, pvars, avars>>

\* the callback of reconnect timer t: connect()
ReconnectTimer(t) ==
  /\ timers[t].st = "pending"
  /\ CanConnect(ws, csock)
  /\ LET r == connect(ws, csock)
     IN /\ ws' = r.ws
        /\ csock' = r.csock
  /\ timers' = [timers EXCEPT ![t].st = "fired"]
  /\ UNCHANGED <<reconnectAttempts, reconnectTimeout, isConnected, hook>>
  /\ UNCHANGED <<bvars, tvars, pvars, avars>>

NextClient ==
  \/ HookMount
  \/ HookUnmount
  \/ \E s \in ClientSockets : onopen(s)
  \/ \E s \in ClientSockets, type \in {"connected", "disconnected"} :
       onmessage(s, type)
  \/ \E s \in ClientSockets, code \in CloseCodes : onclose(s, code)
  \/ \E t \in ClientSockets : ReconnectTimer(t)

SpecClient == Init /\ [][NextClient]_vars

\* the last socket up to s that was opened, the first socket if none was
LastOpened(s) ==
  LET os == {o \in 1..s : csock[o].opened} \cup {1}
  IN CHOOSE o \in os : \A x \in os : x <= o

\* the reconnects attempted since the last successful open when socket s
\* closed: the sockets constructed after the last opened one, up to s
ReconnectsAt(s) == s - LastOpened(s)

ClosedSockets == {s \in ClientSockets : csock[s].readyState = "closed"}

C18_SpawnIdempotent ==
  [][\A c \in Conns :
       (SpawnResolve(c) /\ getProcess(conn[c].sessionPath) # NoProcess)
         => /\ processes' = processes
            /\ engine' = engine
            /\ nEngines' = nEngines]_vars

\* C19: at each tick every registered connection that is not alive is
\* removed from the registry, every other one is marked not alive and its
\* open socket pinged; a connection that sent no pong since the ping of the
\* tick before is removed, and a connection that has answered its ping is
\* not removed by the tick.
C19_Heartbeat ==
  [][Tick =>
       \A c \in Registered :
         /\ ~conn[c].isAlive => c \notin Registered'
         /\ conn[c].isAlive =>
              /\ c \in Registered'
              /\ ~conn'[c].isAlive
              /\ IsOpen(c) => sock'[c].ping = "sent"
         /\ sock[c].ping = "sent" => c \notin Registered'
         /\ sock[c].ping = "answered" => c \in Registered']_vars

\* ------------------------------------------------------------------------
\* SpecDispose: the terminal multiplexer of SpecTerm without the output of
\* the ptys, and with disposeTerminalInstance also called directly, on any
\* instance constructed so far, whether it is disposed or not.
\* ------------------------------------------------------------------------
Dispose(i) ==
  /\ instance[i].pty # "none"
  /\ instance[i].calls < MaxDisposeCalls
  /\ disposeTerminalInstance(i)
  /\ UNCHANGED <<twire, nInstances, nChunks>>
  /\ UNCHANGED <<bvars, pvars, rvars, avars>>

NextDispose ==
  \/ \E s \in TermSockets, p \in Paths, t \in TermIds : TermConnect(s, p, t)
  \/ \E s \in TermSockets, spawnFails \in BOOLEAN : TermAttach(s, spawnFails)
  \/ \E i \in Instances : PtyExit(i)
  \/ \E s \in TermSockets, type \in TermMessageTypes : TermMessage(s, type)
  \/ \E s \in TermSockets : TermSocketClose(s)
  \/ \E s \in TermSockets : TermSocketError(s)
  \/ \E i \in Instances : Dispose(i)

SpecDispose == Init /\ [][NextDispose]_vars

\* what the first disposeTerminalInstance call on instance i does
FirstDisposal(i) ==
  /\ instance'[i].disposed
  /\ \A key \in TermKeys : terminalInstances'[key] # i
  /\ instance'[i].pty = "killed"
  /\ \A s \in instance[i].clients :
       tsock[s].readyState = "open" =>
         tsock'[s].readyState = "closing" /\ tsock'[s].code = 1000
  /\ \A s \in TermSockets \ instance[i].clients : tsock'[s] = tsock[s]
  /\ instance'[i].clients = {}

\* what a later call does: nothing but being counted
LaterDisposal(i) ==
  /\ instance' = [instance EXCEPT ![i].calls = @ + 1]
  /\ UNCHANGED <<terminalInstances, tsock, twire, nInstances, nChunks>>

\* C20: the first disposeTerminalInstance call on an instance marks it
\* disposed, removes it from the registry, kills its pty, closes every
\* attached open socket with code 1000 and empties the client set; a later
\* call on the same instance changes nothing; a pty exit that follows a
\* disposal broadcasts no frame and changes neither sockets nor registry.
C20_DisposeIdempotent ==
  [][\A i \in Instances :
       /\ Dispose(i) =>
            IF instance[i].disposed THEN LaterDisposal(i) ELSE FirstDisposal(i)
       /\ (\E s \in TermSockets :
             /\ TermMessage(s, "close")
             /\ tsock[s].inst = i
             /\ ~instance[i].disposed) => FirstDisposal(i)
       /\ (PtyExit(i) /\ instance[i].disposed) =>
            UNCHANGED <<twire, tsock, terminalInstances>>]_vars

\* instance 1 was disposed, disposeTerminalInstance was called on it again
\* and its pty exited afterwards; its client s1 was closed with 1000 and got
\* no exit frame; instance 2, spawned under the same key, is still
\* registered with its client s2
C20_Witness ==
  /\ instance[1].disposed /\ instance[1].calls = 2
  /\ instance[1].pty = "exited"
  /\ tsock["s1"].inst = 1 /\ tsock["s1"].code = 1000
  /\ \A j \in 1..Len(twire["s1"]) : twire["s1"][j] # Reply("exit")
  /\ terminalInstances[makeTerminalKey("k1", "terminal-1")] = 2
  /\ ~instance[2].disposed
  /\ instance[2].clients = {"s2"}

\* the instances of a key that are constructed and not disposed
LiveInstances(key) ==
  {i \in Instances : /\ instance[i].pty # "none"
                     /\ instance[i].key = key
                     /\ ~instance[i].disposed}

\* at most one live instance per key, and the registry holds live instances
\* under their own key only
OneLiveInstance ==
  \A key \in TermKeys :
    /\ Cardinality(LiveInstances(key)) <= 1
    /\ terminalInstances[key] # NoInstance =>
         terminalInstances[key] \in LiveInstances(key)

\* an attach gets the registered instance and no pty is spawned when there
\* is one, and gets the one pty spawned for it otherwise
AttachGetsOrCreates ==
  \A s \in TermSockets :
    (tsock[s].pc = "resolving" /\ tsock'[s].pc = "attached") =>
      IF getExisting(tsock[s].key) # NoInstance
      THEN /\ tsock'[s].inst = getExisting(tsock[s].key)
           /\ nInstances' = nInstances
      ELSE /\ nInstances' = nInstances + 1
           /\ tsock'[s].inst = nInstances'
           /\ terminalInstances'[tsock[s].key] = nInstances'

\* C21: for every (session key, terminal id) pair at most one non-disposed
\* instance exists and the registry contains only non-disposed instances;
\* getOrCreateTerminal returns the registered instance without spawning when
\* there is one and spawns exactly one pty otherwise.
C21_OneInstancePerKey == []OneLiveInstance /\ [][AttachGetsOrCreates]_vars

\* the second attach found the instance of the first and spawned nothing;
\* after its disposal a third attach would spawn again
C21_Witness ==
  /\ nInstances = 1
  /\ instance[1].clients = {"s1", "s2"}
  /\ terminalInstances[makeTerminalKey("k1", "terminal-1")] = 1
  /\ ~instance[1].disposed

\* C22: after deleteSession(k) the registry holds no session, no process
\* handle, no connection and no execution lock for k, every engine
\* constructed for k is disposed, every socket that was attached to k is
\* closed or closing, and what is stored under the other keys is unchanged.
C22_DeleteSessionCleansUp ==
  [][\A k \in Keys :
       DeleteSession(k) =>
         /\ k \notin sessions'
         /\ processes'[k] = NoProcess
         /\ connections'[k] = {}
         /\ k \notin executingSessions'
         /\ \A e \in Engines :
              (engine[e].key = k /\ engine[e].st # "none") =>
                engine'[e].st = "disposed" /\ ~engine'[e].subscribed
         /\ \A c \in connections[k] :
              sock'[c].readyState \in {"closing", "closed"}
         /\ \A o \in Keys \ {k} :
              /\ (o \in sessions') = (o \in sessions)
              /\ processes'[o] = processes[o]
              /\ connections'[o] = connections[o]
              /\ (o \in executingSessions') = (o \in executingSessions)]_vars

\* ------------------------------------------------------------------------
\* SpecCreate: SessionManager.createSession next to socket connections and
\* deleteSession. One project owns every session; the n-th call works under
\* the temporary path TempKey[n].
\* ------------------------------------------------------------------------
\* the catch of createSession keeping the temporary session entry
createSessionCatch_KeepTemp(ss, t) == ss

\* the catch of createSession: state.deleteSession(tempSessionPath)
createSessionCatch(ss, t) == ss \ {t}

\* createSession up to the await of createAgentSession inside spawnProcess
CreateSession(n) ==
  /\ creates[n] = "none"
  /\ \A m \in 1..(n - 1) : creates[m] # "none"
  /\ sessions' = sessions \cup {TempKey[n]}
  /\ creates' = [creates EXCEPT ![n] = "spawning"]
  /\ UNCHANGED <<dropped, logged>>
  /\ threw' = {}
  /\ UNCHANGED <<scanned, processes, connections, executingSessions, conn,
                 sock, wire, pc, engine, inflight, nEngines, nMsgs, ui>>
  /\ UNCHANGED <<tvars, pvars, rvars>>

\* createAgentSession resolved: spawnProcess registers the handle under the
\* temporary path, then createSession re-keys the session entry if the
\* engine reports a session file
CreateResolve(n, hasFile) ==
  /\ creates[n] = "spawning"
  /\ nEngines < MaxEngines
  /\ LET t == TempKey[n]
         e == nEngines + 1
     IN /\ engine' = [engine EXCEPT ![e] = [st |-> "live", key |-> t,
                                            subscribed |-> TRUE,
                                            disposals |-> 0]]
        /\ processes' = spawnProcess(processes, t, e)
        /\ nEngines' = e
        /\ sessions' = IF hasFile
                       THEN (sessions \ {t}) \cup {NewKey[n]}
                       ELSE sessions \cup {t}
  /\ creates' = [creates EXCEPT ![n] = "done"]
  /\ UNCHANGED <<dropped, logged>>
  /\ threw' = {}
  /\ UNCHANGED <<scanned, connections, executingSessions, conn, sock, wire,
                 pc, inflight, nMsgs, ui>>
  /\ UNCHANGED <<tvars, pvars, rvars>>

\* createAgentSession rejected: spawnProcess throws before it registers
\* anything, createSession removes the temporary entry and throws
CreateReject(n) ==
  /\ creates[n] = "spawning"
  /\ sessions' = createSessionCatch(sessions, TempKey[n])
  /\ creates' = [creates EXCEPT ![n] = "failed"]
  /\ UNCHANGED <<dropped, logged>>
  /\ threw' = {}
  /\ UNCHANGED <<scanned, processes, connections, executingSessions, conn,
                 sock, wire, pc, engine, inflight, nEngines, nMsgs, ui>>
  /\ UNCHANGED <<tvars, pvars, rvars>>

NextCreate ==
  \/ \E c \in Conns, k \in Paths : WsConnect(c, k)
  \/ \E c \in Conns : SpawnResolve(c)
  \/ \E c \in Conns : SpawnReject(c)
  \/ \E c \in Conns : SocketClose(c)
  \/ \E k \in Keys : DeleteSession(k)
  \/ \E n \in CreateCalls : CreateSession(n)
  \/ \E n \in CreateCalls, hasFile \in BOOLEAN : CreateResolve(n, hasFile)
  \/ \E n \in CreateCalls : CreateReject(n)

SpecCreate == Init /\ [][NextCreate]_vars

\* C23: a failed engine construction registers no handle: the socket path
\* leaves handles and engines as they were, and a failed createSession has
\* thrown, has removed its temporary session entry and leaves neither a
\* session nor a handle of its own in the registry.
C23_FailedSpawnLeavesNothing ==
  [][/\ \A c \in Conns :
          SpawnReject(c) => processes' = processes /\ engine' = engine
     /\ \A n \in CreateCalls :
          CreateReject(n) =>
            /\ creates'[n] = "failed"
            /\ processes' = processes /\ engine' = engine
            /\ processes'[TempKey[n]] = NoProcess
            /\ TempKey[n] \notin sessions'
            /\ NewKey[n] \notin sessions']_vars

\* a createSession call failed and a socket's spawn failed: no engine was
\* ever constructed, no handle is registered, the temporary entry is gone
C23_Witness ==
  /\ creates[1] = "failed"
  /\ TempKey[1] \notin sessions
  /\ pc["c1"] = "attached"
  /\ \A k \in ProcKeys : processes[k] = NoProcess
  /\ nEngines = 0

\* ------------------------------------------------------------------------
\* SpecTimeout: SpecConn without the heartbeat and with the timeouts of the
\* extension-UI requests. A timeout that was armed and not cleared fires in
\* the end.
\* ------------------------------------------------------------------------
\* the timeout of request id fires: the request resolves as cancelled and
\* leaves the pending map that holds it
ExtensionUITimeout(id) ==
  /\ ui[id].timer = "armed"
  /\ ui' = [ui EXCEPT ![id] = [st |-> "cancelled", settled |-> @.settled + 1,
                               timer |-> "fired"]]
  /\ processes' = [k \in ProcKeys |->
                     [processes[k] EXCEPT !.pendingExtensionUIs = @ \ {id}]]
  /\ threw' = {}
  /\ UNCHANGED <<sessions, scanned, connections, executingSessions, conn, sock,
                 wire, pc, engine, inflight, nEngines, nMsgs>>
  /\ UNCHANGED <<tvars, pvars, rvars, avars>>

NextTimeout ==
  \/ \E c \in Conns, k \in Keys : WsConnect(c, k)
  \/ \E c \in Conns : SpawnResolve(c)
  \/ \E c \in Conns : SpawnReject(c)
  \/ \E c \in Conns : SocketClose(c)
  \/ \E k \in Keys, id \in UIIds : ExtensionUIRequest(k, id)
  \/ \E c \in Conns, id \in UIIds : ExtensionUIResponse(c, id)
  \/ \E k \in Keys : DeleteSession(k)
  \/ \E id \in UIIds : ExtensionUITimeout(id)

SpecTimeout ==
  /\ Init
  /\ [][NextTimeout]_vars
  /\ \A id \in UIIds : WF_vars(ExtensionUITimeout(id))

\* the requests in the pending map of some handle
PendingInMaps == UNION {processes[k].pendingExtensionUIs : k \in ProcKeys}

\* a timeout fires only on a request that is still pending, settles it as
\* cancelled, for the first time, and takes it out of the pending map
TimeoutCancels ==
  \A id \in UIIds :
    ExtensionUITimeout(id) =>
      /\ ui[id].st = "pending"
      /\ ui'[id].st = "cancelled" /\ ui'[id].settled = 1
      /\ id \notin PendingInMaps'

\* C24: a pending extension-UI request that gets no response before its
\* timeout is resolved as cancelled and removed from the pending map when
\* the timeout fires; no request stays pending, or in the map, forever.
C24_PendingTimesOut ==
  /\ [][TimeoutCancels]_vars
  /\ \A id \in UIIds : (ui[id].st = "pending") ~> (ui[id].st # "pending")
  /\ \A id \in UIIds : (id \in PendingInMaps) ~> (id \notin PendingInMaps)

\* request 1 timed out with a connection attached to its session; request 2
\* was answered, and its cleared timeout never fired
C24_Witness ==
  /\ ui[1] = [st |-> "cancelled", settled |-> 1, timer |-> "fired"]
  /\ ui[2] = [st |-> "resolved", settled |-> 1, timer |-> "cleared"]
  /\ PendingInMaps = {}
  /\ connections["k1"] # {}

\* C25: session resolution is complete: a connection attempt for an
\* identifier that is the key of a registered session, or the relative path
\* of a session of the scanned data, is not rejected as not found, whatever
\* other sessions the registry holds.
C25_ResolutionComplete ==
  [][\A c \in Conns, p \in Paths :
       (WsConnect(c, p) /\ (p \in sessions \/ p \in scanned))
         => /\ pc'[c] # "rejected"
            /\ p \in sessions']_vars

\* the open sockets among the clients of instance i
OpenClients(i) == {s \in instance[i].clients : tsock[s].readyState = "open"}

\* a chunk of output of a live instance is written once, as the same frame,
\* to every open client of the instance and to no other socket
OutputShared ==
  \A i \in Instances, b \in ChunkSizes :
    (PtyData(i, b) /\ ~instance[i].disposed) =>
      LET f == TFrame("output", Chunk(nChunks + 1, b))
      IN \A s \in TermSockets :
           twire'[s] = IF s \in OpenClients(i)
                       THEN Append(twire[s], f)
                       ELSE twire[s]

\* an input message of an attached socket is written to the pty of its
\* instance unless the instance is disposed
InputShared ==
  \A s \in TermSockets :
    (TermMessage(s, "input") /\ ~instance[tsock[s].inst].disposed) =>
      /\ instance'[tsock[s].inst].written = instance[tsock[s].inst].written + 1
      /\ instance'[tsock[s].inst].clients = instance[tsock[s].inst].clients

\* C26: all sockets attached to one terminal instance receive the same
\* output frames for the output produced while they are attached, and an
\* input message of any of them is written to the shared pty while the
\* instance is not disposed.
C26_SharedTerminal == [][OutputShared /\ InputShared]_vars

\* two open sockets of one instance hold the same output frame, and input
\* has been written to the pty
C26_Witness ==
  \E i \in Instances :
    /\ OpenClients(i) = TermSockets
    /\ instance[i].written > 0
    /\ \E f \in UNION {{twire[s][n] : n \in DOMAIN twire[s]} : s \in TermSockets} :
         /\ f.type = "output"
         /\ \A s \in TermSockets : \E n \in DOMAIN twire[s] : twire[s][n] = f

\* the exit of a pty that was not disposed: one exit frame to every open
\* client, which is then closed with 1000; the instance is disposed and
\* unregistered
ExitNotifiesAndCloses ==
  \A i \in Instances :
    (PtyExit(i) /\ ~instance[i].disposed) =>
      /\ \A s \in TermSockets :
           IF s \in OpenClients(i)
           THEN /\ twire'[s] = Append(twire[s], Reply("exit"))
                /\ tsock'[s].readyState = "closing"
                /\ tsock'[s].code = 1000
           ELSE /\ twire'[s] = twire[s]
                /\ tsock'[s] = tsock[s]
      /\ instance'[i].disposed
      /\ instance'[i].clients = {}
      /\ terminalInstances'[instance[i].key] = NoInstance

\* the exit frame is the last frame of a socket and is sent once
ExitIsFinal ==
  \A s \in TermSockets : \A n \in DOMAIN twire[s] :
    twire[s][n] = Reply("exit") => n = Len(twire[s])

\* an attach never ends on an instance whose pty has exited
AttachFindsRunningPty ==
  \A s \in TermSockets :
    (TermAttach(s, FALSE) /\ tsock'[s].pc = "attached") =>
      /\ instance'[tsock'[s].inst].pty = "running"
      /\ ~instance'[tsock'[s].inst].disposed

\* C27: when a pty exits without a prior disposal, every attached open
\* socket is sent exactly one exit frame and closed with code 1000, the
\* instance is marked disposed and removed from the registry, no output
\* frame follows the exit frame, and a following attach for the same key
\* spawns a fresh pty.
C27_ExitClosesTerminal ==
  []ExitIsFinal /\ [][ExitNotifiesAndCloses /\ AttachFindsRunningPty]_vars

\* one socket was sent the exit frame and closed with 1000, and another is
\* attached to a fresh instance of the same key
C27_Witness ==
  \E s, t \in TermSockets :
    /\ twire[s] # <<>>
    /\ twire[s][Len(twire[s])] = Reply("exit")
    /\ tsock[s].code = 1000
    /\ tsock[t].pc = "attached"
    /\ tsock[t].key = tsock[s].key
    /\ tsock[t].inst # tsock[s].inst
    /\ instance[tsock[s].inst].pty = "exited"
    /\ instance[tsock[t].inst].pty = "running"

\* an event of a session without a connection changes no socket and no
\* message queue
DroppedAtOnce ==
  \A e \in Engines :
    (EngineEvent(e) /\ getConnections(engine[e].key) = {}) =>
      /\ wire' = wire
      /\ conn' = conn

\* no socket holds an event that was dropped, and no queue buffers one
NeverDeliveredLater ==
  \A n \in dropped, c \in Conns :
    /\ \A j \in DOMAIN wire[c] : wire[c][j] # Frame("event", n)
    /\ \A j \in DOMAIN conn[c].messageQueue :
         conn[c].messageQueue[j] # Frame("event", n)

\* C28: events emitted by the engine of a session that has no registered
\* connection are dropped: they are not buffered and are never delivered to
\* a connection that attaches later.
C28_EventsWithoutConnectionDropped ==
  []NeverDeliveredLater /\ [][DroppedAtOnce]_vars

\* an event was dropped, and a connection that attached afterwards (every
\* frame it has received is later than the dropped event) is open and
\* registered
C28_Witness ==
  \E n \in dropped, c \in Conns :
    /\ IsOpen(c)
    /\ c \in UNION {connections[k] : k \in Keys}
    /\ wire[c] # <<>>
    /\ \A j \in DOMAIN wire[c] : wire[c][j].seq > n

\* ------------------------------------------------------------------------
\* Commands and other inbound frames.  A frame of a session socket is handed
\* to handleMessage as a string; a command can also arrive through
\* POST /api/sessions/<path>/command.
\* ------------------------------------------------------------------------
\* the frames that are neither a command nor an extension_ui_response:
\* text that is not JSON, the JSON value null, an object of another type,
\* an object without a type
OtherFrames == {"not-json", "null", "unknown-type", "no-type"}

\* JSON.parse: throws a SyntaxError on text that is not JSON
JSONparse(data) ==
  IF data = "not-json"
  THEN [ok |-> FALSE, value |-> "none"]
  ELSE [ok |-> TRUE, value |-> data]

\* what reading message.type yields: a TypeError on null, undefined when the
\* object has no type
messageType(value) ==
  CASE value = "null" -> [ok |-> FALSE, type |-> "none"]
    [] value = "no-type" -> [ok |-> TRUE, type |-> "undefined"]
    [] value = "unknown-type" -> [ok |-> TRUE, type |-> "other"]
    [] OTHER -> [ok |-> TRUE, type |-> value]

\* handleMessage without its try/catch
handleMessage_NoCatch(data) ==
  LET p == JSONparse(data)
      t == messageType(p.value)
      raised == ~p.ok \/ ~t.ok
  IN [thrown |-> raised,
      dispatch |-> IF ~raised /\ t.type \in {"command", "extension_ui_response"}
                   THEN t.type ELSE "none",
      log |-> IF raised THEN "none" ELSE "warn"]

\* handleMessage(sessionPath, data): what leaves the function (an exception
\* or none), the handler the frame is dispatched to, and what is logged
handleMessage(data) ==
  LET p == JSONparse(data)
      t == messageType(p.value)
      raised == ~p.ok \/ ~t.ok
  IN [thrown |-> FALSE,
      dispatch |-> IF ~raised /\ t.type \in {"command", "extension_ui_response"}
                   THEN t.type ELSE "none",
      log |-> IF raised THEN "error"
              ELSE IF t.type \in {"command", "extension_ui_response"}
              THEN "none" ELSE "warn"]

\* socket.on('message') for a frame of OtherFrames.  An exception that
\* leaves the listener is uncaught: the server process ends, and with it
\* every socket and every registration.
InboundFrame(c, data) ==
  /\ sock[c].handlers
  /\ IsOpen(c)
  /\ LET r == handleMessage(data)
     IN /\ r.dispatch = "none"
        /\ logged' = r.log
        /\ IF r.thrown
           THEN /\ sock' = [x \in Conns |->
                              IF sock[x].readyState = "none" THEN sock[x]
                              ELSE [sock[x] EXCEPT !.readyState = "closed"]]
                /\ connections' = [k \in Keys |-> {}]
           ELSE UNCHANGED <<sock, connections>>
  /\ threw' = {}
  /\ UNCHANGED <<sessions, scanned, processes, executingSessions, conn, wire,
                 pc, engine, inflight, nEngines, nMsgs, ui>>
  /\ UNCHANGED <<creates, dropped>>
  /\ UNCHANGED <<tvars, pvars, rvars>>

\* POST <path>/command: 404 when findSessionByPath finds no session, 503
\* when SessionManager.sendCommand finds no handle, else the command goes to
\* ProcessManager.sendCommand
PostCommand(p, cmd) ==
  /\ LET r == findSession(p)
         h == getProcess(p)
     IN /\ sessions' = r.sessions
        /\ IF ~r.found \/ h = NoProcess
           THEN /\ threw' = {}
                /\ UNCHANGED <<executingSessions, inflight, wire, nMsgs>>
           ELSE CASE cmd = "prompt" -> SendPrompt(p, h.eng, TRUE)
                  [] cmd = "prompt_no_message" -> SendPrompt(p, h.eng, FALSE)
  /\ UNCHANGED <<scanned, processes, connections, conn, sock, pc, engine,
                 nEngines, ui>>
  /\ UNCHANGED <<tvars, pvars, rvars, avars>>

NextCommand ==
  \/ \E c \in Conns, k \in Keys : WsConnect(c, k)
  \/ \E c \in Conns : SpawnResolve(c)
  \/ \E c \in Conns : SpawnReject(c)
  \/ \E c \in Conns : SocketClose(c)
  \/ \E c \in Conns, cmd \in Commands : Message(c, cmd)
  \/ \E e \in Engines, ok \in BOOLEAN : PromptSettle(e, ok)
  \/ \E k \in Keys, id \in UIIds : ExtensionUIRequest(k, id)
  \/ \E c \in Conns, data \in OtherFrames : InboundFrame(c, data)
  \/ \E p \in Paths, cmd \in Commands : PostCommand(p, cmd)

SpecCommand == Init /\ [][NextCommand]_vars

\* C29: an inbound frame that is not valid JSON, or whose type is neither
\* command nor extension_ui_response, is dropped: handleMessage does not
\* throw, the connection stays registered, and the registry, the execution
\* lock and the pending-request map are unchanged.
C29_BadFrameDropped ==
  [][\A c \in Conns, data \in OtherFrames :
       InboundFrame(c, data) =>
         /\ sock' = sock
         /\ connections' = connections
         /\ conn' = conn
         /\ sessions' = sessions
         /\ processes' = processes
         /\ executingSessions' = executingSessions
         /\ ui' = ui
         /\ engine' = engine
         /\ inflight' = inflight
         /\ wire' = wire]_vars

\* a frame that is not JSON reached handleMessage while the lock of the
\* session was held and a request was pending; its connection is registered
C29_Witness ==
  \E c \in Conns :
    /\ logged = "error"
    /\ IsOpen(c)
    /\ sock[c].handlers
    /\ c \in connections[conn[c].sessionPath]
    /\ conn[c].sessionPath \in executingSessions
    /\ getProcess(conn[c].sessionPath) # NoProcess
    /\ getProcess(conn[c].sessionPath).pendingExtensionUIs # {}

\* C30: a live process handle is created on the first command sent to a
\* registered session that has no handle: after the command a handle for
\* the session is registered (the command is dispatched to it).
C30_FirstCommandCreatesHandle ==
  [][\A k \in Keys, cmd \in Commands :
       (PostCommand(k, cmd) /\ k \in sessions /\ getProcess(k) = NoProcess)
         => processes'[k] # NoProcess]_vars

\* C31: a send failure on one connection during a broadcast (engine event,
\* error, response or connected) is contained: the broadcast still reaches
\* every other open connection of the session, the failing connection is
\* marked paused, and it is neither removed from the registry nor closed by
\* the failure.
C31_SendFailureContained ==
  [][/\ \A c \in threw' :
          /\ conn'[c].isPaused
          /\ \/ \E k \in Keys : DeleteSession(k)
             \/ /\ c \in UNION {connections'[k] : k \in Keys}
                /\ sock'[c].readyState = "open"
     /\ \A e \in Engines :
          EngineEvent(e) =>
            \A c \in OpenConns(engine[e].key) \ threw' :
              wire'[c] = Append(wire[c], Frame("event", nMsgs'))]_vars

\* a socket that closes or errors only leaves the client set of its
\* instance: no instance is disposed, killed, unregistered or loses history
SocketLossKeepsTerminal ==
  \A s \in TermSockets :
    (TermSocketClose(s) \/ TermSocketError(s)) =>
      /\ terminalInstances' = terminalInstances
      /\ \A i \in Instances :
           /\ instance'[i].disposed = instance[i].disposed
           /\ instance'[i].pty = instance[i].pty
           /\ instance'[i].history = instance[i].history
           /\ instance'[i].clients = instance[i].clients \ {s}

\* an instance is disposed by the exit of its pty or by a close message of
\* one of its sockets, and by nothing else
OnlyCloseOrExitDisposes ==
  \A i \in Instances :
    (~instance[i].disposed /\ instance'[i].disposed) =>
      \/ PtyExit(i)
      \/ \E s \in TermSockets : tsock[s].inst = i /\ TermMessage(s, "close")

\* output of a live instance goes to its scrollback whoever is attached
ScrollbackAccumulates ==
  \A i \in Instances, b \in ChunkSizes :
    (PtyData(i, b) /\ ~instance[i].disposed /\ b > 0 /\ b <= MAX_HISTORY_BYTES) =>
      /\ instance'[i].history # <<>>
      /\ instance'[i].history[Len(instance'[i].history)] = Chunk(nChunks', b)

\* C32: a terminal instance outlives its sockets: when attached sockets
\* close or error, the last one included, the instance stays registered and
\* not disposed, its pty is not killed and its scrollback keeps accumulating
\* output; only a close message or the exit of the pty disposes it.
C32_TerminalOutlivesSockets ==
  [][SocketLossKeepsTerminal /\ OnlyCloseOrExitDisposes
     /\ ScrollbackAccumulates]_vars

\* the only socket of an instance has closed; the instance is registered,
\* running, without clients, and its scrollback holds a chunk the socket
\* never received
C32_Witness ==
  \E i \in Instances, s \in TermSockets :
    /\ tsock[s].pc = "attached"
    /\ tsock[s].inst = i
    /\ tsock[s].readyState = "closed"
    /\ instance[i].clients = {}
    /\ ~instance[i].disposed
    /\ instance[i].pty = "running"
    /\ terminalInstances[instance[i].key] = i
    /\ \E n \in DOMAIN instance[i].history :
         \A j \in DOMAIN twire[s] :
           twire[s][j] # TFrame("output", instance[i].history[n])

\* the key of the session createSession call n returned: the re-keyed path
\* when the engine reported a session file, else the temporary path
returnedKey(n) == IF NewKey[n] \in sessions THEN NewKey[n] ELSE TempKey[n]

\* C33: after createSession returns a session s, the process handle spawned
\* by that call is registered under s.sessionPath, so a connection that then
\* attaches to s.sessionPath finds the handle and spawns no second engine.
C33_HandleUnderReturnedKey ==
  \A n \in CreateCalls :
    (creates[n] = "done" /\ returnedKey(n) \in sessions)
      => getProcess(returnedKey(n)) # NoProcess

\* a socket whose connection has left the registry is no longer open
RemovedIsClosed ==
  \A c \in Conns :
    (sock[c].handlers /\ IsOpen(c)) => c \in connections[conn[c].sessionPath]

\* a frame is dispatched to the process of a session only for a registered
\* connection
DispatchOnlyForRegistered ==
  \A c \in Conns, id \in UIIds :
    (ExtensionUIResponse(c, id) /\ processes' # processes)
      => c \in connections[conn[c].sessionPath]

\* C34: a connection that the heartbeat treats as timed out is forcibly
\* disconnected: after its removal from the registry its socket is closed,
\* so frames that arrive later on that socket are not dispatched as commands
\* or extension-UI responses to the process of the session.
C34_TimedOutIsDisconnected ==
  []RemovedIsClosed /\ [][DispatchOnlyForRegistered]_vars

\* C35: in every reachable state every process handle of the registry is
\* keyed by a session key that is in the session map, also when
\* deleteSession(k) completes while a spawnProcess for k is suspended at the
\* construction of the engine and resumes afterwards.
C35_HandleHasSession ==
  \A k \in ProcKeys : getProcess(k) # NoProcess => k \in sessions

\* the connected frames among the frames w
ConnectedFrames(w) == SelectSeq(w, LAMBDA f : f.type = "connected")

\* C36: each connection receives exactly one connected frame over its
\* lifetime: the frame handleConnection sends for a newly attached socket
\* goes to that socket only, and the connections already attached to the
\* session receive no further connected frame when another socket attaches.
C36_OneConnectedFrame ==
  \A c \in Conns :
    Len(ConnectedFrames(wire[c])) + Len(ConnectedFrames(conn[c].messageQueue)) <= 1

\* C37: after disconnect() the client opens no new socket until connect()
\* is called again: neither a reconnect timer scheduled before the call nor
\* the close event of the socket that disconnect() closed leads to a new
\* connection.  (The hook calls disconnect() when it unmounts and never
\* calls connect() afterwards.)
C37_NoSocketAfterDisconnect ==
  [][hook = "unmounted" =>
       \A s \in ClientSockets :
         csock[s].readyState = "none" => csock'[s].readyState = "none"]_vars

\* ------------------------------------------------------------------------
\* The heartbeat under fairness: setInterval keeps firing, so a tick that is
\* due is eventually run.
\* ------------------------------------------------------------------------
NextHeartbeat ==
  \/ \E c \in Conns, k \in Keys : WsConnect(c, k)
  \/ \E c \in Conns : SpawnResolve(c)
  \/ \E c \in Conns : SpawnReject(c)
  \/ \E c \in Conns : SocketClose(c)
  \/ Tick
  \/ \E c \in Conns : Pong(c)

SpecHeartbeat == Init /\ [][NextHeartbeat]_vars /\ WF_vars(Tick)

\* a registered connection whose socket has closed
ClosedRegistered(c) == c \in Registered /\ sock[c].readyState = "closed"

\* a tick either removes a closed connection or marks it not alive, and a
\* closed connection that is not alive is not marked alive again: the second
\* tick after the close removes it
RemovedWithinTwoTicks ==
  \A c \in Conns :
    /\ (Tick /\ ClosedRegistered(c)) =>
         \/ c \notin Registered'
         \/ conn[c].isAlive /\ ~conn'[c].isAlive
    /\ (ClosedRegistered(c) /\ ~conn[c].isAlive) => ~conn'[c].isAlive

\* C38: every registered connection whose socket has closed is eventually
\* removed from the registry, also when the socket closed while
\* handleConnection was awaiting the spawn, before the close handler was
\* attached; under a fairly firing heartbeat it is removed within two ticks.
C38_ClosedEventuallyRemoved ==
  /\ \A c \in Conns : ClosedRegistered(c) ~> (c \notin Registered)
  /\ [][RemovedWithinTwoTicks]_vars

\* a connection whose socket closed before the close handler was attached
\* (it was never pinged, and a tick found it registered and closed) has been
\* removed by the heartbeat
C38_Witness ==
  \E c \in Conns :
    /\ sock[c].readyState = "closed"
    /\ sock[c].code # 1008
    /\ sock[c].ping = "none"
    /\ ~conn[c].isAlive
    /\ c \notin Registered

\* C39: every pending extension-UI request is settled at most once: across
\* client responses (duplicates and unknown ids included), last-connection
\* disconnects, killProcess and cleanupProcess its resolve or reject
\* callback is invoked at most one time in total, and the request is absent
\* from the pending map afterwards.
C39_SettledAtMostOnce ==
  \A id \in UIIds :
    /\ ui[id].settled <= 1
    /\ ui[id].settled = 1 <=> ui[id].st \notin {"none", "pending"}
    /\ ui[id].settled = 1 => id \notin PendingInMaps
    /\ id \in PendingInMaps => ui[id].st = "pending"

\* one request was resolved by a response and another rejected, the session
\* has been deleted since, and neither was settled a second time
C39_Witness ==
  /\ ui[1].st = "resolved" /\ ui[1].settled = 1
  /\ ui[2].st = "rejected" /\ ui[2].settled = 1
  /\ "k1" \notin sessions
  /\ PendingInMaps = {}

\* deleteSession(k) has completed for a session that had a handle: only
\* killProcess, which only deleteSession calls, disposes an engine
WasDeleted(k) ==
  \E e \in Engines : engine[e].key = k /\ engine[e].st = "disposed"

\* C40: a deleted session stays deleted: after deleteSession(k) a later
\* connection attempt for k is rejected with close code 1008, and the
\* resolution steps, the lazy load from the scanned data included, re-create
\* no session, connection or process handle for k.
C40_DeletedStaysDeleted ==
  [][\A c \in Conns, k \in Keys :
       (WsConnect(c, k) /\ WasDeleted(k) /\ k \notin sessions)
         => /\ pc'[c] = "rejected"
            /\ sock'[c].code = 1008
            /\ k \notin sessions'
            /\ connections'[k] = connections[k]
            /\ processes'[k] = NoProcess]_vars

====
